---- MODULE Spec2Model ----
(***************************************************************************)
(* A model of the address/network arithmetic core of kkirsche/ipaddress    *)
(* (a TypeScript port of Python's ipaddress module).                       *)
(*                                                                         *)
(* Representation.  JavaScript integers (number and bigint alike) are      *)
(* non-negative here and written as little-endian bit sequences without    *)
(* high zero bits: <<>> is 0, <<1>> is 1, <<0, 1>> is 2.  This keeps the   *)
(* program's real widths (32 and 128 bits) although the model checker's    *)
(* own integers stop at 2^31 - 1.  Text is a sequence of one-character     *)
(* strings.  A value that may be absent or an exception is a record        *)
(* [ok, v, err].                                                           *)
(***************************************************************************)
EXTENDS Integers, Sequences, FiniteSets, TLC

(***************************************************************************)
(* Program constants.                                                      *)
(***************************************************************************)
IPv4LENGTH == 32
IPv6LENGTH == 128
\* Number.MAX_SAFE_INTEGER is 2^53 - 1: the safe integers are those of at
\* most 53 bits.
SafeBits == 53

(***************************************************************************)
(* JavaScript integer arithmetic on bit sequences.                         *)
(***************************************************************************)
Min(a, b) == IF a < b THEN a ELSE b
Max(a, b) == IF a < b THEN b ELSE a

\* Drop the high zero bits.
Norm(s) ==
  LET ones == {i \in 1..Len(s) : s[i] = 1}
  IN  IF ones = {} THEN <<>>
      ELSE SubSeq(s, 1, CHOOSE i \in ones : \A j \in ones : j <= i)

Bit(a, i) == IF i <= Len(a) THEN a[i] ELSE 0

RECURSIVE FromNat(_)
FromNat(n) == IF n = 0 THEN <<>> ELSE <<n % 2>> \o FromNat(n \div 2)

RECURSIVE ToNat(_)
ToNat(b) == IF Len(b) = 0 THEN 0 ELSE b[1] + 2 * ToNat(Tail(b))

\* a & b
BitAnd(a, b) == Norm([i \in 1..Min(Len(a), Len(b)) |-> a[i] * b[i]])
\* a | b
BitOr(a, b) == Norm([i \in 1..Max(Len(a), Len(b)) |-> Max(Bit(a, i), Bit(b, i))])
\* a ^ b
BitXor(a, b) == Norm([i \in 1..Max(Len(a), Len(b)) |-> (Bit(a, i) + Bit(b, i)) % 2])
\* ~a & b, for a, b >= 0
BitAndNot(a, b) == Norm([i \in 1..Len(b) |-> b[i] * (1 - Bit(a, i))])
\* a << k
ShiftLeft(a, k) ==
  IF Len(a) = 0 THEN <<>>
  ELSE Norm([i \in 1..(Len(a) + k) |-> IF i <= k THEN 0 ELSE a[i - k]])
\* a >> k
ShiftRight(a, k) == IF k >= Len(a) THEN <<>> ELSE SubSeq(a, k + 1, Len(a))
\* a < b
Less(a, b) ==
  \/ Len(a) < Len(b)
  \/ /\ Len(a) = Len(b)
     /\ \E i \in 1..Len(a) :
          /\ a[i] < b[i]
          /\ \A j \in (i + 1)..Len(a) : a[j] = b[j]
LessEq(a, b) == a = b \/ Less(a, b)

\* Bits lo..hi of a + b + c and the carry out of them (c = 0 or 1)
RECURSIVE AddRange(_, _, _, _, _)
AddRange(a, b, lo, hi, c) ==
  IF lo = hi
  THEN LET s == Bit(a, lo) + Bit(b, lo) + c
       IN  [bits |-> <<s % 2>>, c |-> s \div 2]
  ELSE LET mid == (lo + hi) \div 2
           low == AddRange(a, b, lo, mid, c)
           high == AddRange(a, b, mid + 1, hi, low.c)
       IN  [bits |-> low.bits \o high.bits, c |-> high.c]
\* a + b
Plus(a, b) ==
  IF a = <<>> THEN b
  ELSE IF b = <<>> THEN a
  ELSE LET sum == AddRange(a, b, 1, Max(Len(a), Len(b)), 0)
       IN  IF sum.c = 1 THEN sum.bits \o <<1>> ELSE sum.bits

\* Bits lo..hi of a - b - c and the borrow out of them (c = 0 or 1)
RECURSIVE SubRange(_, _, _, _, _)
SubRange(a, b, lo, hi, c) ==
  IF lo = hi
  THEN LET d == Bit(a, lo) - Bit(b, lo) - c
       IN  [bits |-> <<(d + 2) % 2>>, c |-> IF d < 0 THEN 1 ELSE 0]
  ELSE LET mid == (lo + hi) \div 2
           low == SubRange(a, b, lo, mid, c)
           high == SubRange(a, b, mid + 1, hi, low.c)
       IN  [bits |-> low.bits \o high.bits, c |-> high.c]
\* a - b, for a >= b
Minus(a, b) ==
  IF b = <<>> THEN a ELSE Norm(SubRange(a, b, 1, Len(a), 0).bits)

One == <<1>>
AllOnesBits(w) == [i \in 1..w |-> 1]
TwoToThe(k) == ShiftLeft(One, k)

\* utilities.ts isSafeNumber, for a value >= 0
isSafeNumber(n) == Len(n) <= SafeBits

(***************************************************************************)
(* Text.                                                                   *)
(***************************************************************************)
Digits == <<"0", "1", "2", "3", "4", "5", "6", "7", "8", "9">>
\* Characters outside ASCII are written by their code point's name.
NonAsciiChars == {"U+00E9", "U+0663"}

IsDigitChar(c) == \E i \in 1..10 : Digits[i] = c
DigitValue(c) == (CHOOSE i \in 1..10 : Digits[i] = c) - 1

strIsAscii(s) == \A i \in 1..Len(s) : s[i] \notin NonAsciiChars
strIsDigit(s) == \A i \in 1..Len(s) : IsDigitChar(s[i])

\* String.prototype.indexOf(c), 0-based, -1 when absent
IndexOf(s, c) ==
  IF \E i \in 1..Len(s) : s[i] = c
  THEN (CHOOSE i \in 1..Len(s) : s[i] = c /\ \A j \in 1..(i - 1) : s[j] # c) - 1
  ELSE -1

\* String.prototype.split(sep) for a one-character separator
RECURSIVE Split(_, _)
Split(s, sep) ==
  LET k == IndexOf(s, sep)
  IN  IF k = -1 THEN <<s>>
      ELSE <<SubSeq(s, 1, k)>> \o Split(SubSeq(s, k + 2, Len(s)), sep)

\* Array.prototype.join(sep)
RECURSIVE Join(_, _)
Join(parts, sep) ==
  IF Len(parts) = 0 THEN <<>>
  ELSE IF Len(parts) = 1 THEN parts[1]
  ELSE parts[1] \o <<sep>> \o Join(Tail(parts), sep)

\* Number.prototype.toString() of a small non-negative integer
RECURSIVE DecStr(_)
DecStr(n) ==
  IF n < 10 THEN <<Digits[n + 1]>>
  ELSE DecStr(n \div 10) \o <<Digits[(n % 10) + 1]>>

\* parseInt(s, 10): the value of the longest prefix of decimal digits, NaN
\* when there is none.  (Signs and leading white space, which parseInt also
\* accepts, are outside the modelled alphabet.)
RECURSIVE DigitRun(_)
DigitRun(s) ==
  IF Len(s) = 0 \/ ~IsDigitChar(s[1]) THEN <<>>
  ELSE <<s[1]>> \o DigitRun(Tail(s))
RECURSIVE DecValue(_)
DecValue(ds) ==
  IF Len(ds) = 0 THEN 0
  ELSE 10 * DecValue(SubSeq(ds, 1, Len(ds) - 1)) + DigitValue(ds[Len(ds)])

(***************************************************************************)
(* Outcomes and JavaScript values.                                         *)
(***************************************************************************)
Ok(v) == [ok |-> TRUE, v |-> v, err |-> "none"]
Err(e) == [ok |-> FALSE, v |-> <<>>, err |-> e]

\* const x = ...; Body(x)
With(x, Body(_)) == Body(x)
\* const v = call(); Body(v), the call's exception propagating
Try(r, Body(_)) == IF r.ok THEN Body(r.v) ELSE r

\* null, and a value that is not null
Null == <<>>
Some(n) == <<n>>
isNull(v) == v = Null

JsString(s) == [t |-> "string", s |-> s]
JsNumber(n) == [t |-> "number", nan |-> FALSE, n |-> n]
JsNaN == [t |-> "number", nan |-> TRUE, n |-> <<>>]
JsBigInt(n) == [t |-> "bigint", n |-> n]
JsArray(a) == [t |-> "array", a |-> a]
JsUndefined == [t |-> "undefined"]
\* Negative integers: n is the magnitude
JsNegNumber(n) == [t |-> "number", nan |-> FALSE, n |-> n, neg |-> TRUE]
JsNegBigInt(n) == [t |-> "bigint", n |-> n, neg |-> TRUE]
IsNegative(v) == "neg" \in DOMAIN v

isNumber(v) == v.t = "number"
isBigInt(v) == v.t = "bigint"
isString(v) == v.t = "string"
isByteArray(v) == v.t = "array" /\ \A i \in 1..Len(v.a) : v.a[i].t = "number"

parseInt(s) ==
  LET run == DigitRun(s)
  IN  IF Len(run) = 0 THEN JsNaN ELSE JsNumber(FromNat(DecValue(run)))

(***************************************************************************)
(* The integer/byte codec (utilities.ts).                                  *)
(***************************************************************************)
Reverse(s) == [i \in 1..Len(s) |-> s[Len(s) + 1 - i]]

\* A faulty byte extraction: it masks with 0x7f.
ByteAtSevenBits(n, i) == ToNat(BitAnd(ShiftRight(n, i * 8), AllOnesBits(7)))

\* (BigInt(n) >> BigInt(i * 8)) & BigInt(0xff), as a number
ByteAt(n, i) == ToNat(BitAnd(ShiftRight(n, i * 8), AllOnesBits(8)))

intToBytes(n, length, byteorder) ==
  LET order == IF byteorder = "little"
               THEN [k \in 1..length |-> k - 1]
               ELSE [k \in 1..length |-> length - k]
  IN  [k \in 1..length |-> ByteAt(n, order[k])]

\* (BigInt(-m) >> BigInt(i * 8)) & BigInt(0xff) for m > 0: bigint shifts and
\* masks work on the two's complement, and -m is ~(m - 1)
ByteAtNegative(m, i) == 255 - ByteAt(Minus(m, One), i)

ByteOrders == {"little", "big"}

\* intToBytes called with a JavaScript integer n, negative ones included
intToBytesCall(n, length, byteorder) ==
  IF byteorder \notin ByteOrders THEN Err("TypeError")
  ELSE IF IsNegative(n)
  THEN Ok([k \in 1..length |->
             ByteAtNegative(n.n, IF byteorder = "little" THEN k - 1 ELSE length - k)])
  ELSE Ok(intToBytes(n.n, length, byteorder))

RECURSIVE SumShifted(_, _)
SumShifted(littleOrdered, idx) ==
  IF idx > Len(littleOrdered) THEN <<>>
  ELSE Plus(ShiftLeft(littleOrdered[idx].n, (idx - 1) * 8),
            SumShifted(littleOrdered, idx + 1))

\* A faulty decoder: it takes the bytes as little-endian whatever the byte
\* order asked for.
intFromBytesAsGiven(bytes, byteOrder, signed) ==
  LET len == Len(bytes)
  IN  IF \E i \in 1..len : bytes[i].nan THEN Err("RangeError")
      ELSE IF signed /\ len = 0 THEN Err("TypeError")
      ELSE IF signed /\ Bit(bytes[len].n, 8) = 1
           THEN Ok(TwoToThe(8 * len))
      ELSE Ok(SumShifted(bytes, 1))

\* The array the sum is taken over.  For "big" it is bytes.reverse(), and
\* Array.prototype.reverse reverses the array in place and returns that same
\* array: the caller's array holds these elements once the call has returned.
littleOrdered(bytes, byteOrder) ==
  IF byteOrder = "little" THEN bytes ELSE Reverse(bytes)

\* bytes: a sequence of JavaScript numbers; the result is a number when safe
\* and a bigint otherwise (isSafeNumber tells which).
intFromBytes(bytes, byteOrder, signed) ==
  LET ordered == littleOrdered(bytes, byteOrder)
      len == Len(ordered)
  IN  IF \E i \in 1..len : ordered[i].nan THEN Err("RangeError")
      ELSE IF signed /\ len = 0 THEN Err("TypeError")
      ELSE IF signed /\ Bit(ordered[len].n, 8) = 1
           THEN Ok(TwoToThe(8 * len))
      ELSE Ok(SumShifted(ordered, 1))

\* The value intFromBytes returns: Number(n) when n is a safe integer, the
\* bigint n otherwise
NumberOrBigInt(n) == IF isSafeNumber(n) THEN JsNumber(n) ELSE JsBigInt(n)

\* utilities.ts _splitOptionalNetmask
_splitOptionalNetmask(address) ==
  With(Split(address, "/"), LAMBDA addr :
    IF Len(addr) # 2 THEN Err("AddressTypeError")
    ELSE Ok(<<addr[1], addr[2]>>))

\* utilities.ts _countRighthandZeroBits
\* number is a JavaScript number or bigint; 0n === 0 is false, and
\* ~0n & (0n - 1n) is -1n, whose binary text "-1" has two characters.
_countRighthandZeroBits(number, bits) ==
  IF isNumber(number) /\ number.n = <<>> THEN bits
  ELSE IF number.n = <<>> THEN Min(bits, 2)
  ELSE LET value == BitAndNot(number.n, Minus(number.n, One))
           \* value.toString(2).length: "0" has one character
           calculated == IF value = <<>> THEN 1 ELSE Len(value)
       IN  Min(bits, calculated)

(***************************************************************************)
(* Per-family constants.                                                   *)
(***************************************************************************)
_maxPrefixlen(version) == IF version = 4 THEN IPv4LENGTH ELSE IPv6LENGTH
_ALL_ONES(version) == AllOnesBits(_maxPrefixlen(version))

(***************************************************************************)
(* Family 4 text (01-IPv4Address / 03-IPv4Network, _BaseV4).               *)
(***************************************************************************)
_parseOctet(octetStr) ==
  IF octetStr = <<>> THEN Err("TypeError")
  ELSE IF ~strIsAscii(octetStr) /\ ~strIsDigit(octetStr) THEN Err("TypeError")
  ELSE IF Len(octetStr) > 3 THEN Err("TypeError")
  ELSE IF octetStr # <<"0">> /\ IndexOf(octetStr, "0") = 0 THEN Err("TypeError")
  ELSE With(parseInt(octetStr), LAMBDA octetInt :
         IF ~octetInt.nan /\ Less(FromNat(255), octetInt.n)
         THEN Err("TypeError")
         ELSE Ok(octetInt))

\* Every exception of the try block is rethrown as an AddressValueError.
_ipIntFromString(ipStr) ==
  IF ipStr = <<>> THEN Err("AddressValueError")
  ELSE With(Split(ipStr, "."), LAMBDA octets :
         IF Len(octets) # 4 THEN Err("AddressValueError")
         ELSE With([i \in 1..4 |-> _parseOctet(octets[i])], LAMBDA parsed :
                IF \E i \in 1..4 : ~parsed[i].ok THEN Err("AddressValueError")
                ELSE With(intFromBytes([i \in 1..4 |-> parsed[i].v], "big", FALSE),
                          LAMBDA parsedOctets :
                            IF ~parsedOctets.ok THEN Err("AddressValueError")
                            ELSE IF ~isSafeNumber(parsedOctets.v)
                                 THEN Err("AddressValueError")
                            ELSE parsedOctets)))

\* A faulty formatter: it writes the four bytes lowest first.
_stringFromIpIntLowestFirst(ipInt) ==
  LET bytes == intToBytes(ipInt, 4, "little")
  IN  Join([i \in 1..4 |-> DecStr(bytes[i])], ".")

_stringFromIpInt(ipInt) ==
  LET bytes == intToBytes(ipInt, 4, "big")
  IN  Join([i \in 1..4 |-> DecStr(bytes[i])], ".")

(***************************************************************************)
(* Address objects.                                                        *)
(***************************************************************************)
\* address: a JavaScript number or bigint; the integer it holds when in range
_checkIntAddress(version, address) ==
  IF IsNegative(address) THEN Err("AddressValueError")
  ELSE IF Less(_ALL_ONES(version), address.n) THEN Err("AddressValueError")
  ELSE Ok(address.n)

IPv4Address(address) ==
  IF isBigInt(address) /\ ~isSafeNumber(address.n) THEN Err("AddressValueError")
  ELSE IF isBigInt(address) \/ isNumber(address)
  THEN Try(_checkIntAddress(4, address), LAMBDA ip : Ok([version |-> 4, _ip |-> ip]))
  ELSE IF address.t = "array"
  THEN IF isByteArray(address)
       THEN IF Len(address.a) # 4 THEN Err("AddressValueError")
            ELSE Try(intFromBytes(address.a, "big", FALSE), LAMBDA ip :
                   IF ~isSafeNumber(ip) THEN Err("AddressValueError")
                   ELSE Ok([version |-> 4, _ip |-> ip]))
       ELSE Err("TypeError")
  ELSE IF address.t = "undefined" THEN Err("TypeError")
  ELSE IF IndexOf(address.s, "/") # -1 THEN Err("AddressValueError")
  ELSE Try(_ipIntFromString(address.s), LAMBDA ip : Ok([version |-> 4, _ip |-> ip]))

(***************************************************************************)
(* Family 6 text (IPv6Address, _BaseV6).                                   *)
(***************************************************************************)
_HEXTET_COUNT == 8
HexDigitsLower ==
  <<"0", "1", "2", "3", "4", "5", "6", "7", "8", "9", "a", "b", "c", "d", "e", "f">>
HexDigitsUpper ==
  <<"0", "1", "2", "3", "4", "5", "6", "7", "8", "9", "A", "B", "C", "D", "E", "F">>
_HEX_DIGITS ==
  {HexDigitsLower[i] : i \in 1..16} \cup {HexDigitsUpper[i] : i \in 1..16}
WhiteSpace == {" "}

\* Every character of the text is in the set.  (utilities.ts exports no
\* isSuperset; this is the meaning its call in _parseHextet needs.)
isSuperset(set, subset) == \A i \in 1..Len(subset) : subset[i] \in set

IsHexChar(c) == c \in _HEX_DIGITS
HexValue(c) ==
  IF \E i \in 1..16 : HexDigitsLower[i] = c
  THEN (CHOOSE i \in 1..16 : HexDigitsLower[i] = c) - 1
  ELSE (CHOOSE i \in 1..16 : HexDigitsUpper[i] = c) - 1
RECURSIVE HexRun(_)
HexRun(s) ==
  IF Len(s) = 0 \/ ~IsHexChar(s[1]) THEN <<>>
  ELSE <<s[1]>> \o HexRun(Tail(s))
RECURSIVE HexNat(_)
HexNat(ds) ==
  IF Len(ds) = 0 THEN 0
  ELSE 16 * HexNat(SubSeq(ds, 1, Len(ds) - 1)) + HexValue(ds[Len(ds)])
\* parseInt(s, 16) of a text of at most four characters
parseInt16(s) ==
  IF Len(HexRun(s)) = 0 THEN JsNaN ELSE JsNumber(FromNat(HexNat(HexRun(s))))
\* n.toString(16) of a small non-negative integer
RECURSIVE HexStr(_)
HexStr(n) ==
  IF n < 16 THEN <<HexDigitsLower[n + 1]>>
  ELSE HexStr(n \div 16) \o <<HexDigitsLower[(n % 16) + 1]>>

\* hextetStr: a string, or undefined when the caller indexed outside its
\* array; then either isSuperset or hextetStr.length throws.
_parseHextet(hextetStr) ==
  IF ~isString(hextetStr) THEN Err("Error")
  ELSE IF ~isSuperset(_HEX_DIGITS, hextetStr.s) THEN Err("Error")
  ELSE IF Len(hextetStr.s) > 4 THEN Err("Error")
  ELSE IF parseInt16(hextetStr.s).nan THEN Err("Error")
  ELSE Ok(parseInt16(hextetStr.s).n)

\* [addr, scopeId] of "addr%scopeId"; scopeId is null without a "%"
_splitScopeId(ipStr) ==
  With(Split(ipStr, "%"), LAMBDA parts :
    IF IndexOf(ipStr, "%") = -1 THEN Ok(<<parts[1], Null>>)
    ELSE IF Len(parts[2]) = 0 \/ IndexOf(parts[2], "%") # -1
         THEN Err("AddressValueError")
    ELSE Ok(<<parts[1], Some(parts[2])>>))

\* parts[i] of a JavaScript array, i counted from 0: undefined outside it
PartAt(parts, i) ==
  IF 0 <= i /\ i < Len(parts) THEN JsString(parts[i + 1]) ELSE JsUndefined

\* for (let i = from; i < to; i++) { ipInt <<= 16n; ipInt |= parseHextet(parts[i]) }
RECURSIVE ParseHextets(_, _, _, _)
ParseHextets(parts, from, to, ipInt) ==
  IF from >= to THEN Ok(ipInt)
  ELSE Try(_parseHextet(PartAt(parts, from)), LAMBDA hextet :
         ParseHextets(parts, from + 1, to, BitOr(ShiftLeft(ipInt, 16), hextet)))

\* The try block that shifts the hextets into the integer; every exception
\* in it is rethrown as an AddressValueError.
HextetsToInt(parts, partsHi, partsLo, partsSkipped) ==
  With(ParseHextets(parts, 0, partsHi, <<>>), LAMBDA hi :
    IF ~hi.ok THEN Err("AddressValueError")
    ELSE With(ParseHextets(parts, 0 - partsLo, 0, ShiftLeft(hi.v, 16 * partsSkipped)),
              LAMBDA lo : IF ~lo.ok THEN Err("AddressValueError") ELSE lo))

\* The indexes i, 1 <= i < parts.length - 1, of the empty parts
SkipIndexes(parts) == {i \in 1..(Len(parts) - 2) : Len(parts[i + 1]) = 0}

\* With a "::" at index skipIndex
PartsAroundSkip(parts, skipIndex) ==
  LET firstEmpty == Len(parts[1]) = 0
      lastEmpty == Len(parts[Len(parts)]) = 0
      partsHi == IF firstEmpty THEN skipIndex - 1 ELSE skipIndex
      partsLo == IF lastEmpty THEN Len(parts) - skipIndex - 2
                 ELSE Len(parts) - skipIndex - 1
      partsSkipped == _HEXTET_COUNT - (partsHi + partsHi)
  IN  IF firstEmpty /\ partsHi # 0 THEN Err("AddressValueError")
      ELSE IF lastEmpty /\ partsLo # 0 THEN Err("AddressValueError")
      ELSE IF partsSkipped < 1 THEN Err("AddressValueError")
      ELSE HextetsToInt(parts, partsHi, partsLo, partsSkipped)

\* From the check of the number of parts on
PartsToInt(parts) ==
  IF Len(parts) > _HEXTET_COUNT + 1 THEN Err("AddressValueError")
  ELSE IF Cardinality(SkipIndexes(parts)) > 1 THEN Err("AddressValueError")
  ELSE IF SkipIndexes(parts) # {}
       THEN PartsAroundSkip(parts, CHOOSE i \in SkipIndexes(parts) : TRUE)
  ELSE IF Len(parts) # _HEXTET_COUNT THEN Err("AddressValueError")
  ELSE IF Len(parts[1]) = 0 THEN Err("AddressValueError")
  ELSE IF Len(parts[Len(parts)]) = 0 THEN Err("AddressValueError")
  ELSE HextetsToInt(parts, Len(parts), 0, 0)

\* The parts with an IPv4-style last part replaced by its two hextets
WithIPv4Suffix(parts) ==
  With(IPv4Address(JsString(parts[Len(parts)])), LAMBDA ipv4 :
    IF ipv4.ok
    THEN Ok(SubSeq(parts, 1, Len(parts) - 1)
            \o <<HexStr(ToNat(BitAnd(ShiftRight(ipv4.v._ip, 16), AllOnesBits(16)))),
                 HexStr(ToNat(BitAnd(ipv4.v._ip, AllOnesBits(16))))>>)
    ELSE IF ipv4.err = "AddressValueError" THEN Err("AddressValueError")
    ELSE Ok(SubSeq(parts, 1, Len(parts) - 1)))

\* IPv6Address._ipIntFromString
_ipIntFromString6(ipStr) ==
  IF \A i \in 1..Len(ipStr) : ipStr[i] \in WhiteSpace THEN Err("AddressValueError")
  ELSE With(Split(ipStr, ":"), LAMBDA parts :
         IF Len(parts) < 3 THEN Err("AddressValueError")
         ELSE IF IndexOf(parts[Len(parts)], ".") # -1
              THEN Try(WithIPv4Suffix(parts), LAMBDA replaced : PartsToInt(replaced))
         ELSE PartsToInt(parts))

\* Array.prototype.splice(start, deleteCount, item): deleteCount elements
\* from index start on (0-based), as many as there are, give way to item
Splice(a, start, deleteCount, item) ==
  LET deleted == Min(deleteCount, Len(a) - start)
  IN  SubSeq(a, 1, start) \o <<item>> \o SubSeq(a, start + deleted + 1, Len(a))

\* The loop of _compressHextets from index on; s holds its four variables.
\* There is no branch for a hextet other than "0".
RECURSIVE CompressScan(_, _, _)
CompressScan(hextets, index, s) ==
  IF index >= Len(hextets) THEN s
  ELSE IF hextets[index + 1] # <<"0">> THEN CompressScan(hextets, index + 1, s)
  ELSE LET doubleColonLen == s.doubleColonLen + 1
           doublecolonStart == IF s.doublecolonStart = -1 THEN index
                               ELSE s.doublecolonStart
           longest == doubleColonLen > s.bestDoublecolonLen
       IN  CompressScan(hextets, index + 1,
             [doubleColonLen |-> doubleColonLen,
              doublecolonStart |-> doublecolonStart,
              bestDoublecolonLen |-> IF longest THEN doubleColonLen
                                     ELSE s.bestDoublecolonLen,
              bestDoublecolonStart |-> IF longest THEN doublecolonStart
                                       ELSE s.bestDoublecolonStart])

\* IPv6Address._compressHextets
_compressHextets(hextets) ==
  LET s == CompressScan(hextets, 0,
             [doubleColonLen |-> 0, doublecolonStart |-> -1,
              bestDoublecolonLen |-> 0, bestDoublecolonStart |-> -1])
      bestDoublecolonEnd == s.bestDoublecolonStart + s.bestDoublecolonLen
      pushed == IF bestDoublecolonEnd = Len(hextets) THEN Append(hextets, <<>>)
                ELSE hextets
      spliced == Splice(pushed, s.bestDoublecolonStart, bestDoublecolonEnd, <<>>)
  IN  IF s.bestDoublecolonLen > 1
      THEN IF s.bestDoublecolonStart = 0 THEN <<<<>>>> \o spliced ELSE spliced
      ELSE hextets

\* An outcome that is neither a value nor an exception: the call never
\* returns.
Diverges == [ok |-> FALSE, v |-> <<>>, err |-> "never returns"]

\* IPv6Address._stringFromIpInt.  Its loop, for (let x = 0; x < 32; x + 4),
\* never changes x: it pushes hextets for ever, and the compression and the
\* join after it are never reached.
_stringFromIpInt6(ipInt) ==
  IF Less(_ALL_ONES(6), ipInt) THEN Err("Error") ELSE Diverges

\* An address built from an integer or from bytes has a null scope id; the
\* model writes it without the _scopeId field.
IPv6Address(address) ==
  CASE isBigInt(address) ->
         Try(_checkIntAddress(6, address), LAMBDA ip : Ok([version |-> 6, _ip |-> ip]))
    [] isByteArray(address) ->
         IF Len(address.a) # 16 THEN Err("AddressValueError")
         ELSE Try(intFromBytes(address.a, "big", FALSE), LAMBDA ip :
                IF isSafeNumber(ip) THEN Err("AddressValueError")
                ELSE Ok([version |-> 6, _ip |-> ip]))
    [] address.t = "undefined" -> Err("TypeError")
    [] isString(address) ->
         IF IndexOf(address.s, "/") # -1 THEN Err("AddressValueError")
         ELSE Try(_splitScopeId(address.s), LAMBDA split :
                Try(_ipIntFromString6(split[1]), LAMBDA ip :
                  Ok([version |-> 6, _ip |-> ip, _scopeId |-> split[2]])))

NewAddress(version, address) ==
  IF version = 4 THEN IPv4Address(address) ELSE IPv6Address(address)

\* _BaseAddress equals / lessThan (same family)
AddressEquals(a, b) == a.version = b.version /\ a._ip = b._ip
AddressLessThan(a, b) == a._ip # b._ip /\ Less(a._ip, b._ip)
toString(addr) == _stringFromIpInt(addr._ip)

(***************************************************************************)
(* Prefix lengths and netmasks.                                            *)
(***************************************************************************)
\* An integer of the family as the class holds it: number (4), bigint (6)
IpValue(version, n) == IF version = 4 THEN JsNumber(n) ELSE JsBigInt(n)

_ipIntFromPrefix(version, prefixlen) ==
  BitXor(_ALL_ONES(version), ShiftRight(_ALL_ONES(version), prefixlen))

_prefixFromIpInt(version, ipInt) ==
  With(_countRighthandZeroBits(ipInt, _maxPrefixlen(version)), LAMBDA trailingZeroes :
    LET prefixlen == _maxPrefixlen(version) - trailingZeroes
        leadingOnes == ShiftRight(ipInt.n, trailingZeroes)
        allOnes == Minus(TwoToThe(prefixlen), One)
    IN  IF leadingOnes # allOnes THEN Err("TypeError") ELSE Ok(prefixlen))

_prefixFromPrefixString(version, prefixlenStr) ==
  IF ~(strIsAscii(prefixlenStr) /\ strIsDigit(prefixlenStr))
  THEN Err("NetmaskValueError")
  ELSE With(parseInt(prefixlenStr), LAMBDA prefixlen :
         IF prefixlen.nan THEN Err("NetmaskValueError")
         ELSE IF Less(FromNat(_maxPrefixlen(version)), prefixlen.n)
              THEN Err("NetmaskValueError")
         ELSE Ok(ToNat(prefixlen.n)))

_prefixFromIpString(ipStr) ==
  With(_ipIntFromString(ipStr), LAMBDA ipInt :
    IF ~ipInt.ok THEN Err("NetmaskValueError")
    ELSE With(_prefixFromIpInt(4, JsNumber(ipInt.v)), LAMBDA asNetmask :
           IF asNetmask.ok THEN asNetmask
           ELSE With(_prefixFromIpInt(4, JsNumber(BitXor(ipInt.v, _ALL_ONES(4)))),
                     LAMBDA asHostmask :
                       IF asHostmask.ok THEN asHostmask
                       ELSE Err("NetmaskValueError"))))

\* A faulty key: every number is kept under one property name.
CacheKeyOfKind(arg) == IF isNumber(arg) THEN <<"n">> ELSE arg.s

\* The property name under which _netmaskCache[arg] is kept: a number key is
\* its decimal text, so 32 and "32" name the same entry.
CacheKey(arg) == IF isNumber(arg) THEN DecStr(ToNat(arg.n)) ELSE arg.s

\* The prefix length _makeNetmask computes on a cache miss
PrefixlenOf(version, arg) ==
  IF isNumber(arg)
  THEN IF Less(FromNat(_maxPrefixlen(version)), arg.n)
       THEN Err("NetmaskValueError")
       ELSE Ok(ToNat(arg.n))
  ELSE With(_prefixFromPrefixString(version, arg.s), LAMBDA fromPrefix :
         IF fromPrefix.ok \/ version = 6 THEN fromPrefix
         ELSE _prefixFromIpString(arg.s))

\* The entry _makeNetmask stores: [netmask, prefixlen]
NetmaskCacheValue(version, prefixlen) ==
  [netmask |-> NewAddress(version,
                 IpValue(version, _ipIntFromPrefix(version, prefixlen))).v,
   prefixlen |-> prefixlen]

\* cache: the class's _netmaskCache, a function from keys to
\* [netmask, prefixlen]; the outcome carries the cache afterwards.
_makeNetmask(version, cache, arg) ==
  With(CacheKey(arg), LAMBDA key :
    IF key \in DOMAIN cache THEN [res |-> Ok(cache[key]), cache |-> cache]
    ELSE With(PrefixlenOf(version, arg), LAMBDA prefixlen :
           IF ~prefixlen.ok THEN [res |-> prefixlen, cache |-> cache]
           ELSE With(NetmaskCacheValue(version, prefixlen.v), LAMBDA value :
                  [res |-> Ok(value), cache |-> (key :> value) @@ cache])))

_splitAddrPrefix(version, address) ==
  LET mask == JsNumber(FromNat(_maxPrefixlen(version)))
      integer == IF version = 4 THEN isNumber(address) ELSE isBigInt(address)
  IN  IF integer \/ isByteArray(address) THEN Ok(<<address, mask>>)
      ELSE IF isString(address)
      THEN Try(_splitOptionalNetmask(address.s), LAMBDA addressArray :
             Ok(<<JsString(addressArray[1]), mask>>))
      ELSE IF address.t = "array" /\ Len(address.a) > 0
      THEN Ok(<<address.a[1], mask>>)
      ELSE Ok(<<JsUndefined, mask>>)

(***************************************************************************)
(* Network objects.                                                        *)
(***************************************************************************)
\* A faulty constructor: of the pair _makeNetmask returned it stores the
\* prefix length, not the netmask, as the netmask's integer.
HostBitsCheckedKeepingPrefixlen(version, packed, made, cache, strict) ==
  LET masked == BitAnd(packed, made.netmask._ip)
  IN  IF masked # packed /\ strict
      THEN [res |-> Err(IF version = 4 THEN "TypeError" ELSE "Error"), cache |-> cache]
      ELSE [res |-> Ok([version |-> version,
                        networkAddress |-> [version |-> version, _ip |-> masked],
                        netmask |-> [version |-> version, _ip |-> FromNat(made.prefixlen)],
                        _prefixlen |-> made.prefixlen]),
            cache |-> cache]

\* The constructor's host bits check: packed is the address as given, made
\* what _makeNetmask returned
HostBitsChecked(version, packed, made, cache, strict) ==
  LET masked == BitAnd(packed, made.netmask._ip)
  IN  IF masked # packed /\ strict
      THEN [res |-> Err(IF version = 4 THEN "TypeError" ELSE "Error"), cache |-> cache]
      ELSE [res |-> Ok([version |-> version,
                        networkAddress |-> [version |-> version, _ip |-> masked],
                        netmask |-> made.netmask,
                        _prefixlen |-> made.prefixlen]),
            cache |-> cache]

\* new IPv4Network(address, strict) / new IPv6Network(address, strict):
\* the outcome and the class's cache afterwards
Network(version, cache, address, strict) ==
  With(_splitAddrPrefix(version, address), LAMBDA split :
    IF ~split.ok THEN [res |-> split, cache |-> cache]
    ELSE With(NewAddress(version, split.v[1]), LAMBDA networkAddress :
           IF ~networkAddress.ok THEN [res |-> networkAddress, cache |-> cache]
           ELSE With(_makeNetmask(version, cache, split.v[2]), LAMBDA made :
                  IF ~made.res.ok THEN made
                  ELSE HostBitsChecked(version, networkAddress.v._ip, made.res.v,
                                       made.cache, strict))))

NetworkEquals(a, b) ==
  /\ a.version = b.version
  /\ AddressEquals(a.networkAddress, b.networkAddress)
  /\ a.netmask._ip = b.netmask._ip

hostmask(self) ==
  [version |-> self.version,
   _ip |-> BitXor(self.networkAddress._ip, _ALL_ONES(self.version))]

broadcastAddress(self) ==
  [version |-> self.version,
   _ip |-> BitOr(self.networkAddress._ip, hostmask(self)._ip)]

numAddresses(self) ==
  Plus(Minus(broadcastAddress(self)._ip, self.networkAddress._ip), One)

\* Outcome of _isSubnetOf(a, b): a boolean, or the error for two families
_isSubnetOf(a, b) ==
  IF a.version # b.version THEN Err("Error")
  ELSE With(broadcastAddress(a), LAMBDA aBroadcast :
         With(broadcastAddress(b), LAMBDA bBroadcast :
           LET lessThanOrEqualToNetworkAddr ==
                 \/ AddressLessThan(b.networkAddress, a.networkAddress)
                 \/ AddressEquals(b.networkAddress, a.networkAddress)
               greaterThanOrEqualToBroadcastAddr ==
                 \/ AddressLessThan(aBroadcast, bBroadcast)
                 \/ AddressEquals(aBroadcast, bBroadcast)
           IN  Ok(lessThanOrEqualToNetworkAddr /\ greaterThanOrEqualToBroadcastAddr)))

subnetOf(self, other) == _isSubnetOf(self, other)

\* `${networkAddress}/${prefixlen}` of a family 4 network
NetworkToString(self) ==
  toString(self.networkAddress) \o <<"/">> \o DecStr(self._prefixlen)

(***************************************************************************)
(* Generators.  A generator is described by what draining it gives: the    *)
(* values it yields and how it ends: "return", "throw" (with err), or      *)
(* "diverge" when it never ends, its last yield repeating for ever.  The   *)
(* class's netmask cache afterwards is carried along.                      *)
(***************************************************************************)
Gen(yields, end, err, cache) ==
  [yields |-> yields, end |-> end, err |-> err, cache |-> cache]

\* The k-th call of next() on a generator
GenNext(gen, k) ==
  LET n == Len(gen.yields)
  IN  IF k <= n THEN [done |-> FALSE, threw |-> FALSE, value |-> gen.yields[k]]
      ELSE IF gen.end = "diverge"
           THEN [done |-> FALSE, threw |-> FALSE, value |-> gen.yields[n]]
      ELSE IF gen.end = "throw" /\ k = n + 1
           THEN [done |-> TRUE, threw |-> TRUE, value |-> Null]
      ELSE [done |-> TRUE, threw |-> FALSE, value |-> Null]

\* new Network([newAddr, newPrefixlen]) as subnets and supernet call it
NetworkFromPair(version, cache, addr, prefixlen) ==
  Network(version, cache,
          JsArray(<<IpValue(version, addr), JsNumber(FromNat(prefixlen))>>), TRUE)

\* Addresses of iterate() the model draws before it stops pulling
MaxIterated == 3

\* for (let x = ...; x < broadcast; x++) yield new Address(x), from x on
RECURSIVE IterateLoop(_, _, _, _)
IterateLoop(version, x, broadcast, yielded) ==
  IF ~Less(x, broadcast) THEN [yields |-> yielded, end |-> "return"]
  ELSE IF Len(yielded) = MaxIterated THEN [yields |-> yielded, end |-> "more"]
  ELSE IterateLoop(version, Plus(x, One), broadcast,
                   Append(yielded, [version |-> version, _ip |-> x]))

\* [...self.iterate()], as far as the model draws it
iterate(self) ==
  IterateLoop(self.version, Plus(self.networkAddress._ip, One),
              broadcastAddress(self)._ip, <<>>)

\* [...self.hosts()], as far as the model draws it: the same loop
hosts(self) ==
  IterateLoop(self.version, Plus(self.networkAddress._ip, One),
              broadcastAddress(self)._ip, <<>>)

\* The loop's update expression is `step`, which changes nothing: newAddr
\* stays at start, so the loop body either throws in its first round or
\* yields the same network for ever.
subnets(self, cache, prefixlenDiff, newPrefix) ==
  LET maxPrefixlen == _maxPrefixlen(self.version)
      diff == IF isNull(newPrefix) THEN prefixlenDiff
              ELSE newPrefix[1] - self._prefixlen
      newPrefixlen == self._prefixlen + diff
      start == self.networkAddress._ip
      end == broadcastAddress(self)._ip
  IN  IF self._prefixlen = maxPrefixlen THEN Gen(<<self>>, "return", "none", cache)
      ELSE IF ~isNull(newPrefix) /\ newPrefix[1] < self._prefixlen
           THEN Gen(<<>>, "throw", "Error", cache)
      ELSE IF ~isNull(newPrefix) /\ prefixlenDiff # 1
           THEN Gen(<<>>, "throw", "Error", cache)
      ELSE IF diff < 0 THEN Gen(<<>>, "throw", "Error", cache)
      ELSE IF newPrefixlen > maxPrefixlen THEN Gen(<<>>, "throw", "Error", cache)
      ELSE IF ~Less(start, end) THEN Gen(<<>>, "return", "none", cache)
      ELSE With(NetworkFromPair(self.version, cache, start, newPrefixlen),
                LAMBDA current :
                  IF ~current.res.ok
                  THEN Gen(<<>>, "throw", current.res.err, current.cache)
                  ELSE Gen(<<current.res.v>>, "diverge", "none", current.cache))

\* Rounds of addressExclude's while loop the model follows before it calls
\* the loop endless
MaxExcludeRounds == 3

RECURSIVE ExcludeLoop(_, _, _, _, _, _, _)
ExcludeLoop(gen, other, s1, s2, k, yielded, rounds) ==
  LET si1 == GenNext(gen, k)
      si2 == GenNext(gen, k + 1)
      n1 == IF si1.done THEN s1 ELSE si1.value
      n2 == IF si2.done THEN s2 ELSE si2.value
  IN  IF NetworkEquals(s1, other) \/ NetworkEquals(s2, other)
      THEN Gen(yielded, "return", "none", gen.cache)
      ELSE IF rounds = 0 THEN Gen(yielded, "diverge", "none", gen.cache)
      ELSE IF subnetOf(other, s1).v
           THEN IF si1.threw \/ si2.threw
                THEN Gen(yielded \o <<s2>>, "throw", gen.err, gen.cache)
                ELSE ExcludeLoop(gen, other, n1, n2, k + 2, yielded \o <<s2>>, rounds - 1)
      ELSE IF subnetOf(other, s2).v
           THEN IF si1.threw \/ si2.threw
                THEN Gen(yielded \o <<s1>>, "throw", gen.err, gen.cache)
                ELSE ExcludeLoop(gen, other, n1, n2, k + 2, yielded \o <<s1>>, rounds - 1)
      ELSE Gen(yielded, "throw", "Error", gen.cache)

\* addressExclude after its checks: other rebuilt from its text, then the
\* walk over this.subnets()
ExcludeWalk(self, rebuilt) ==
  IF ~rebuilt.res.ok THEN Gen(<<>>, "throw", rebuilt.res.err, rebuilt.cache)
  ELSE With(subnets(self, rebuilt.cache, 1, Null), LAMBDA gen :
         LET si1 == GenNext(gen, 1)
             si2 == GenNext(gen, 2)
         IN  IF si1.threw \/ si2.threw THEN Gen(<<>>, "throw", gen.err, gen.cache)
             ELSE IF si1.done \/ si2.done THEN Gen(<<>>, "return", "none", gen.cache)
             ELSE ExcludeLoop(gen, rebuilt.res.v, si1.value, si2.value, 3, <<>>,
                              MaxExcludeRounds))

\* IPv4Network.addressExclude (self of family 4), drained
addressExclude(self, cache, other) ==
  IF self.version # other.version THEN Gen(<<>>, "throw", "Error", cache)
  ELSE IF ~subnetOf(other, self).v THEN Gen(<<>>, "throw", "Error", cache)
  ELSE IF NetworkEquals(other, self) THEN Gen(<<>>, "return", "none", cache)
  ELSE ExcludeWalk(self, Network(4, cache, JsString(NetworkToString(other)), TRUE))

\* supernet(prefixlenDiff, newPrefix): the outcome and the cache afterwards
supernet(self, cache, prefixlenDiff, newPrefix) ==
  LET diff == IF isNull(newPrefix) THEN prefixlenDiff
              ELSE self._prefixlen - prefixlenDiff
      newPrefixlen == self._prefixlen - diff
      value == BitAnd(self.networkAddress._ip, ShiftLeft(self.netmask._ip, diff))
  IN  IF self._prefixlen = 0 THEN [res |-> Ok(self), cache |-> cache]
      ELSE IF ~isNull(newPrefix) /\ newPrefix[1] > self._prefixlen
           THEN [res |-> Err("Error"), cache |-> cache]
      ELSE IF ~isNull(newPrefix) /\ prefixlenDiff # 1
           THEN [res |-> Err("Error"), cache |-> cache]
      ELSE IF newPrefixlen < 0 THEN [res |-> Err("Error"), cache |-> cache]
      ELSE IF self.version = 4 /\ ~isSafeNumber(value)
           THEN [res |-> Err("Error"), cache |-> cache]
      ELSE NetworkFromPair(self.version, cache, value, newPrefixlen)

(***************************************************************************)
(* Inputs.                                                                 *)
(***************************************************************************)
Dotted(a, b, c, d) == Join(<<DecStr(a), DecStr(b), DecStr(c), DecStr(d)>>, ".")
Slash(addr, mask) == addr \o <<"/">> \o mask
Bytes(s) == JsArray([i \in 1..Len(s) |-> JsNumber(FromNat(s[i]))])
\* The integer of a dotted quad a.b.c.d
Quad(a, b, c, d) ==
  Plus(Plus(ShiftLeft(FromNat(a), 24), ShiftLeft(FromNat(b), 16)),
       Plus(ShiftLeft(FromNat(c), 8), FromNat(d)))
\* 2001:db8:: plus a small offset
Doc6(offset) ==
  Plus(Plus(ShiftLeft(FromNat(8193), 112), ShiftLeft(FromNat(3512), 96)),
       FromNat(offset))

Texts4 ==
  { Slash(Dotted(10, 0, 0, 5), DecStr(24)),
    Slash(Dotted(10, 0, 0, 0), DecStr(24)),
    Slash(Dotted(192, 0, 2, 0), DecStr(24)),
    Slash(Dotted(192, 0, 2, 0), Dotted(255, 255, 255, 0)),
    Slash(Dotted(192, 0, 2, 0), Dotted(0, 0, 0, 255)),
    Slash(Dotted(192, 0, 2, 0), DecStr(28)),
    Slash(Dotted(192, 0, 2, 1), DecStr(32)),
    Slash(Dotted(192, 0, 2, 0), DecStr(32)),
    Slash(Dotted(0, 0, 0, 0), DecStr(0)),
    Dotted(192, 0, 2, 1) }

Inputs4 ==
  { JsString(t) : t \in Texts4 }
  \cup { JsNumber(Quad(192, 0, 2, 1)),
         Bytes(<<192, 0, 2, 1>>),
         JsArray(<<JsString(Dotted(192, 0, 2, 0)), JsNumber(FromNat(24))>>),
         JsArray(<<JsNumber(Quad(192, 0, 2, 0)), JsNumber(FromNat(24))>>) }

Inputs6 ==
  { JsBigInt(Doc6(1)),
    JsBigInt(TwoToThe(IPv6LENGTH)),
    Bytes(<<32, 1, 13, 184, 0, 0, 0, 0, 0, 0, 0, 0, 0, 0, 0, 1>>),
    JsArray(<<JsBigInt(Doc6(0)), JsNumber(FromNat(32))>>) }

\* The second variable is built from fewer inputs, always strictly.
OtherInputs4 ==
  { JsString(Slash(Dotted(192, 0, 2, 1), DecStr(32))),
    JsString(Slash(Dotted(192, 0, 2, 0), DecStr(32))),
    JsString(Slash(Dotted(10, 0, 0, 0), DecStr(24))) }
OtherInputs6 == { JsBigInt(Doc6(0)) }

Inputs(slot, version) ==
  IF slot = "A" THEN (IF version = 4 THEN Inputs4 ELSE Inputs6)
  ELSE (IF version = 4 THEN OtherInputs4 ELSE OtherInputs6)
Stricts(slot) == IF slot = "A" THEN BOOLEAN ELSE {TRUE}

\* Arguments of subnets and supernet: <<prefixlenDiff, newPrefix>>
MaxPrefixlenDiff == 2
PrefixArgs ==
  { <<d, Null>> : d \in 1..MaxPrefixlenDiff }
  \cup { <<1, Some(p)>> : p \in {24, 25} }

(***************************************************************************)
(* The state: two program variables holding networks, the two classes'     *)
(* netmask caches, and the outcome of the last operation called.           *)
(***************************************************************************)
\* net: the two network variables of the caller; netmaskCache: each family's
\* static _netmaskCache; last: the last call and what it returned; callers:
\* the _makeNetmask calls in progress; iters: the live generator objects.
VARIABLES net, netmaskCache, last, callers, iters
vars == <<net, netmaskCache, last, callers, iters>>

Slots == {"A", "B"}
Versions == {4, 6}

Unbuilt ==
  [built |-> FALSE, version |-> 0, address |-> JsUndefined, strict |-> TRUE,
   res |-> Err("none")]

NoCallers == <<>>
NoIters == <<>>
NoCall == [op |-> "none", self |-> "", other |-> "", args |-> <<>>, out |-> <<>>]
Call(op, self, other, args, out) ==
  [op |-> op, self |-> self, other |-> other, args |-> args, out |-> out]

Init ==
  /\ callers = NoCallers
  /\ iters = NoIters
  /\ net = [s \in Slots |-> Unbuilt]
  /\ netmaskCache = [v \in Versions |-> <<>>]
  /\ last = NoCall

\* const slot = new IPv4Network(address, strict), or new IPv6Network(...)
New(slot, version, address, strict) ==
  /\ ~net[slot].built
  /\ LET made == Network(version, netmaskCache[version], address, strict)
     IN  /\ net' = [net EXCEPT ![slot] =
                      [built |-> TRUE, version |-> version, address |-> address,
                       strict |-> strict, res |-> made.res]]
         /\ netmaskCache' = [netmaskCache EXCEPT ![version] = made.cache]
  /\ last' = NoCall
  /\ UNCHANGED <<callers, iters>>

Hostmask(slot) ==
  /\ net[slot].res.ok
  /\ last' = Call("hostmask", slot, "", <<>>, hostmask(net[slot].res.v))
  /\ UNCHANGED <<net, netmaskCache, callers, iters>>

BroadcastAddress(slot) ==
  /\ net[slot].res.ok
  /\ last' = Call("broadcastAddress", slot, "", <<>>, broadcastAddress(net[slot].res.v))
  /\ UNCHANGED <<net, netmaskCache, callers, iters>>

NumAddresses(slot) ==
  /\ net[slot].res.ok
  /\ last' = Call("numAddresses", slot, "", <<>>, numAddresses(net[slot].res.v))
  /\ UNCHANGED <<net, netmaskCache, callers, iters>>

\* [...slot.subnets(prefixlenDiff, newPrefix)]
Subnets(slot, args) ==
  /\ net[slot].res.ok
  /\ LET self == net[slot].res.v
         gen == subnets(self, netmaskCache[self.version], args[1], args[2])
     IN  /\ last' = Call("subnets", slot, "", args, gen)
         /\ netmaskCache' = [netmaskCache EXCEPT ![self.version] = gen.cache]
  /\ UNCHANGED <<net, callers, iters>>

\* [...slot.addressExclude(other)], slot holding a family 4 network
AddressExclude(slot, other) ==
  /\ net[slot].res.ok
  /\ net[other].res.ok
  /\ net[slot].res.v.version = 4
  /\ LET gen == addressExclude(net[slot].res.v, netmaskCache[4], net[other].res.v)
     IN  /\ last' = Call("addressExclude", slot, other, <<>>, gen)
         /\ netmaskCache' = [netmaskCache EXCEPT ![4] = gen.cache]
  /\ UNCHANGED <<net, callers, iters>>

\* slot.supernet(prefixlenDiff, newPrefix)
Supernet(slot, args) ==
  /\ net[slot].res.ok
  /\ LET self == net[slot].res.v
         out == supernet(self, netmaskCache[self.version], args[1], args[2])
     IN  /\ last' = Call("supernet", slot, "", args, out.res)
         /\ netmaskCache' = [netmaskCache EXCEPT ![self.version] = out.cache]
  /\ UNCHANGED <<net, callers, iters>>

\* slot.subnetOf(other)
SubnetOf(slot, other) ==
  /\ net[slot].res.ok
  /\ net[other].res.ok
  /\ last' = Call("subnetOf", slot, other, <<>>,
                  subnetOf(net[slot].res.v, net[other].res.v))
  /\ UNCHANGED <<net, netmaskCache, callers, iters>>

\* slot.iterate(), drawn from
Iterate(slot) ==
  /\ net[slot].res.ok
  /\ last' = Call("iterate", slot, "", <<>>, iterate(net[slot].res.v))
  /\ UNCHANGED <<net, netmaskCache, callers, iters>>

Next ==
  \/ \E slot \in Slots, version \in Versions :
       \E address \in Inputs(slot, version), strict \in Stricts(slot) :
         New(slot, version, address, strict)
  \/ \E slot \in Slots : Hostmask(slot)
  \/ \E slot \in Slots : BroadcastAddress(slot)
  \/ \E slot \in Slots : NumAddresses(slot)
  \/ \E slot \in Slots, args \in PrefixArgs : Subnets(slot, args)
  \/ \E slot \in Slots, other \in Slots : AddressExclude(slot, other)
  \/ \E slot \in Slots, args \in PrefixArgs : Supernet(slot, args)
  \/ \E slot \in Slots, other \in Slots : SubnetOf(slot, other)
  \/ \E slot \in Slots : Iterate(slot)

Spec == Init /\ [][Next]_vars

(***************************************************************************)
(* Addresses and the conversions on their own.  A behaviour draws one      *)
(* input and applies one operation to it; the outcome is left in `last`.   *)
(* No network is built and the netmask caches stay empty.                  *)
(***************************************************************************)
\* v4IntToPacked (utilities.ts)
v4IntToPacked(address) ==
  IF Less(AllOnesBits(IPv4LENGTH), address) THEN Err("TypeError")
  ELSE Ok(intToBytes(address, 4, "big"))

\* IPv4Address._reversePointer
InAddrArpa == <<".", "i", "n", "-", "a", "d", "d", "r", ".", "a", "r", "p", "a">>
_reversePointer(addr) == Join(Reverse(Split(toString(addr), ".")), ".") \o InAddrArpa

\* What an IPv4Address shows: toNumber(), toString(), compressed, exploded,
\* packed and reversePointer
Observed4(addr) ==
  [toNumber |-> addr._ip, toString |-> toString(addr),
   compressed |-> toString(addr), exploded |-> toString(addr),
   packed |-> v4IntToPacked(addr._ip), reversePointer |-> _reversePointer(addr)]

\* IPv6Address: scope_id, toString() and exploded
scope_id(addr) == IF "_scopeId" \in DOMAIN addr THEN addr._scopeId ELSE Null
toString6(addr) ==
  Try(_stringFromIpInt6(addr._ip), LAMBDA ipStr :
    Ok(IF isNull(scope_id(addr)) THEN ipStr
       ELSE ipStr \o <<"%">> \o scope_id(addr)[1]))
\* _explodeShorthandIpString: its loop for (let x = 0; x < 32; x + 4) does
\* not end either
_explodeShorthandIpString6(addr) ==
  Try(toString6(addr), LAMBDA ipStr :
    Try(_ipIntFromString6(ipStr), LAMBDA ipInt : Diverges))

\* equals of either address class
equals(a, b) == AddressEquals(a, b)

\* Inputs
OctetSamples == {0, 1, 10, 168, 192, 255}
OctetQuads == {<<a, b, c, d>> : a \in OctetSamples, b \in OctetSamples,
                                c \in OctetSamples, d \in OctetSamples}
QuadValue(q) == Quad(q[1], q[2], q[3], q[4])

Colons(parts) == Join(parts, ":")
Hextets(ns) == [i \in 1..Len(ns) |-> HexStr(ns[i])]
\* "2001:db8::1"
DocText6 == Colons(Hextets(<<8193, 3512>>) \o <<<<>>>> \o Hextets(<<1>>))
Texts6 ==
  { DocText6,
    Colons(Hextets(<<8193, 3512, 0, 0, 0, 0, 0, 1>>)),
    Colons(<<<<>>, <<>>, <<>>>>),
    Colons(<<<<>>, <<>>>> \o Hextets(<<1>>)),
    Colons(Hextets(<<65152>>) \o <<<<>>, <<>>>>),
    Colons(Hextets(<<8193, 3512, 1>>) \o <<<<>>, <<>>>>),
    Colons(<<<<>>, <<>>>> \o Hextets(<<65535>>) \o <<Dotted(192, 0, 2, 1)>>),
    Colons(Hextets(<<1, 2, 3, 4, 5, 6, 7>>)),
    Colons(Hextets(<<1, 2, 3, 4, 5, 6, 7, 8, 9, 10>>)),
    Colons(Hextets(<<1>>) \o <<<<>>>> \o Hextets(<<2>>) \o <<<<>>>> \o Hextets(<<3>>)),
    Colons(<<<<"g">>, <<>>, <<>>>>),
    Colons(<<<<"1", "2", "3", "4", "5">>, <<>>, <<>>>>),
    <<>>, <<" ">>, Dotted(192, 0, 2, 1) }
Values6 ==
  { <<>>, One, Doc6(0), Doc6(1), TwoToThe(64), TwoToThe(127), _ALL_ONES(6),
    ShiftLeft(FromNat(65152), 112) }

Prefixes == {<<4, p>> : p \in 0..IPv4LENGTH} \cup {<<6, p>> : p \in 0..IPv6LENGTH}

\* Octet texts, and the texts with one of them in one of the four places
OctetTexts ==
  { <<>>, <<"0">>, <<"7">>, <<"0", "0">>, <<"0", "1">>, <<"2", "5", "5">>,
    <<"2", "5", "6">>, <<"9", "9", "9">>, <<"1", "2", "3", "4">>,
    <<"0", "0", "0", "1">>, <<"a">>, <<"1", "a">>, <<"a", "1">>,
    <<"U+00E9">>, <<"1", "U+00E9">>, <<"U+0663">>, <<"1", "/", "8">> }
ParseTexts4 ==
  { Join([i \in 1..4 |-> IF i = k THEN o ELSE <<"1">>], ".") :
      k \in 1..4, o \in OctetTexts }
  \cup { <<>>, <<"1">>, Join(<<<<"1">>, <<"2">>, <<"3">>>>, "."),
         Join(<<<<"1">>, <<"2">>, <<"3">>, <<"4">>, <<"5">>>>, "."),
         Dotted(192, 168, 0, 1), Dotted(255, 255, 255, 255) }

\* Arguments of new IPv4Address(...) and new IPv6Address(...)
NewInputs4 ==
  { JsNumber(<<>>), JsNumber(_ALL_ONES(4)), JsNumber(TwoToThe(IPv4LENGTH)),
    JsNumber(TwoToThe(SafeBits)), JsNegNumber(One),
    JsBigInt(<<>>), JsBigInt(_ALL_ONES(4)), JsBigInt(TwoToThe(IPv4LENGTH)),
    JsBigInt(TwoToThe(64)), JsNegBigInt(One), JsNegBigInt(TwoToThe(64)),
    Bytes(<<>>), Bytes(<<192, 0, 2>>), Bytes(<<192, 0, 2, 1>>),
    Bytes(<<192, 0, 2, 1, 0>>), Bytes(<<255, 255, 255, 255>>),
    Bytes(<<256, 0, 0, 0>>), Bytes(<<0, 0, 0, 256>>),
    JsString(Dotted(192, 0, 2, 1)), JsString(Dotted(192, 0, 2, 256)),
    JsString(Slash(Dotted(192, 0, 2, 1), DecStr(32))) }
NewInputs6 ==
  { JsBigInt(v) : v \in Values6 }
  \cup { JsBigInt(TwoToThe(IPv6LENGTH)), JsNegBigInt(One),
         Bytes([i \in 1..15 |-> 1]), Bytes([i \in 1..16 |-> 255]),
         Bytes([i \in 1..16 |-> IF i = 16 THEN 1 ELSE 0]),
         Bytes([i \in 1..16 |-> IF i = 1 THEN 256 ELSE 0]),
         Bytes([i \in 1..17 |-> 1]) }
  \cup { JsString(t) : t \in Texts6 }

\* Pairs of constructor arguments, for equals
Scoped(t, zone) == t \o <<"%">> \o zone
Eth0 == <<"e", "t", "h", "0">>
Eth1 == <<"e", "t", "h", "1">>
EqualsInputs4 ==
  { JsNumber(Quad(192, 0, 2, 1)), JsNumber(Quad(192, 0, 2, 2)),
    Bytes(<<192, 0, 2, 1>>), JsString(Dotted(192, 0, 2, 1)), JsNumber(<<>>), JsNumber(One) }
EqualsInputs6 ==
  { JsBigInt(<<>>), JsBigInt(One), JsBigInt(ShiftLeft(FromNat(65152), 96)),
    JsString(Colons(<<<<>>, <<>>, <<>>>>)),
    JsString(Scoped(Colons(<<<<>>, <<>>, <<>>>>), Eth0)),
    JsString(Scoped(Colons(<<<<>>, <<>>, <<>>>>), Eth1)),
    JsString(Colons(Hextets(<<65152>>) \o <<<<>>, <<>>>>)),
    JsString(Scoped(Colons(Hextets(<<65152>>) \o <<<<>>, <<>>>>), Eth0)),
    JsString(Scoped(Colons(Hextets(<<65152>>) \o <<<<>>, <<>>>>), Eth1)) }
EqualsInputs ==
  {<<4, x>> : x \in EqualsInputs4} \cup {<<6, x>> : x \in EqualsInputs6}

\* An input drawn for a kind of operation, nothing applied yet
Draw(kind, x) == Call("draw", kind, "", x, <<>>)
Drawn(kind) == last.op = "draw" /\ last.self = kind

AddressInit ==
  /\ callers = NoCallers
  /\ iters = NoIters
  /\ net = [s \in Slots |-> Unbuilt]
  /\ netmaskCache = [v \in Versions |-> <<>>]
  /\ last \in {Draw("octets", q) : q \in OctetQuads}
            \cup {Draw("value6", <<v>>) : v \in Values6}
            \cup {Draw("text6", <<t>>) : t \in Texts6}
            \cup {Draw("prefix", p) : p \in Prefixes}
            \cup {Draw("text4", <<t>>) : t \in ParseTexts4}
            \cup {Draw("new", <<4, x>>) : x \in NewInputs4}
            \cup {Draw("new", <<6, x>>) : x \in NewInputs6}
            \cup {Draw("pair", <<x, y>>) : x \in EqualsInputs, y \in EqualsInputs}

\* IPv4Address._ipIntFromString(IPv4Address._stringFromIpInt(v))
FormatParse4 ==
  /\ Drawn("octets")
  /\ last' = Call("formatParse4", "", "", last.args,
                  With(_stringFromIpInt(QuadValue(last.args)), LAMBDA text :
                    [text |-> text, parsed |-> _ipIntFromString(text)]))
  /\ UNCHANGED <<net, netmaskCache, callers, iters>>

\* new IPv4Address(v), new IPv4Address([a, b, c, d]), new IPv4Address("a.b.c.d")
NewIPv4AddressForms ==
  /\ Drawn("octets")
  /\ last' = Call("forms4", "", "", last.args,
                  [n \in {"number", "bytes", "string"} |->
                     IPv4Address(CASE n = "number" -> JsNumber(QuadValue(last.args))
                                   [] n = "bytes" -> Bytes(last.args)
                                   [] n = "string" ->
                                        JsString(Dotted(last.args[1], last.args[2],
                                                        last.args[3], last.args[4])))])
  /\ UNCHANGED <<net, netmaskCache, callers, iters>>

\* IPv6Address._ipIntFromString(IPv6Address._stringFromIpInt(v))
FormatParse6 ==
  /\ Drawn("value6")
  /\ last' = Call("formatParse6", "", "", last.args,
                  With(_stringFromIpInt6(last.args[1]), LAMBDA text :
                    [text |-> text,
                     parsed |-> IF text.ok THEN _ipIntFromString6(text.v) ELSE text]))
  /\ UNCHANGED <<net, netmaskCache, callers, iters>>

\* const a = new IPv6Address(text); a.exploded; a.compressed
ParseExplode6 ==
  /\ Drawn("text6")
  /\ last' = Call("parseExplode6", "", "", last.args,
                  With(IPv6Address(JsString(last.args[1])), LAMBDA a :
                    [address |-> a,
                     exploded |-> IF a.ok THEN _explodeShorthandIpString6(a.v) ELSE a,
                     compressed |-> IF a.ok THEN toString6(a.v) ELSE a]))
  /\ UNCHANGED <<net, netmaskCache, callers, iters>>

\* _prefixFromIpInt(_ipIntFromPrefix(p)) of the family's address class
PrefixRoundTrip ==
  /\ Drawn("prefix")
  /\ last' = Call("prefixRoundTrip", "", "", last.args,
                  _prefixFromIpInt(last.args[1],
                                   IpValue(last.args[1],
                                           _ipIntFromPrefix(last.args[1], last.args[2]))))
  /\ UNCHANGED <<net, netmaskCache, callers, iters>>

\* IPv4Address._ipIntFromString(text)
Parse4 ==
  /\ Drawn("text4")
  /\ last' = Call("parse4", "", "", last.args, _ipIntFromString(last.args[1]))
  /\ UNCHANGED <<net, netmaskCache, callers, iters>>

\* new IPv4Address(x) / new IPv6Address(x)
NewAddressCall ==
  /\ Drawn("new")
  /\ last' = Call("new", "", "", last.args, NewAddress(last.args[1], last.args[2]))
  /\ UNCHANGED <<net, netmaskCache, callers, iters>>

\* new ...Address(x).equals(new ...Address(y))
Equals ==
  /\ Drawn("pair")
  /\ last' = Call("equals", "", "", last.args,
                  With(NewAddress(last.args[1][1], last.args[1][2]), LAMBDA a :
                    With(NewAddress(last.args[2][1], last.args[2][2]), LAMBDA b :
                      [a |-> a, b |-> b,
                       equal |-> IF a.ok /\ b.ok THEN equals(a.v, b.v) ELSE FALSE])))
  /\ UNCHANGED <<net, netmaskCache, callers, iters>>

AddressNext ==
  \/ FormatParse4
  \/ NewIPv4AddressForms
  \/ FormatParse6
  \/ ParseExplode6
  \/ PrefixRoundTrip
  \/ Parse4
  \/ NewAddressCall
  \/ Equals

AddressSpec == AddressInit /\ [][AddressNext]_vars

(***************************************************************************)
(* The text conversions called on their own: a mask text to its prefix     *)
(* length, a family 6 text to its integer, a list of hextets to its        *)
(* compressed form.                                                        *)
(***************************************************************************)
\* The four octets of the netmask of prefix length p, and of its hostmask
NetmaskOctets(p) ==
  [k \in 1..4 |-> 256 - 2^(8 - Min(8, Max(0, p - 8 * (k - 1))))]
HostmaskOctets(p) == [k \in 1..4 |-> 255 - NetmaskOctets(p)[k]]
MaskText(form, p) ==
  LET o == IF form = "netmask" THEN NetmaskOctets(p) ELSE HostmaskOctets(p)
  IN  Dotted(o[1], o[2], o[3], o[4])

\* Family 6 texts: hi hextets, then "::" or ":", then lo hextets
HextetRun == <<1, 2, 3, 4, 5, 6, 7, 8, 9>>
GapText(hi, gap, lo) ==
  IF gap THEN Colons(Hextets(hi)) \o <<":", ":">> \o Colons(Hextets(lo))
  ELSE Colons(Hextets(hi \o lo))
GapInputs ==
  { <<SubSeq(HextetRun, 1, h), gap, SubSeq(HextetRun, 10 - l, 9)>> :
      h \in 0..8, gap \in BOOLEAN, l \in 0..8 }

\* Lists of eight hextets, each "0" or "1", and the hextets of 2001:db8::1
ZeroOneHextets == [1.._HEXTET_COUNT -> {<<"0">>, <<"1">>}]
HextetLists ==
  ZeroOneHextets \cup {Hextets(<<8193, 3512, 0, 0, 0, 0, 0, 1>>)}

TextInit ==
  /\ callers = NoCallers
  /\ iters = NoIters
  /\ net = [s \in Slots |-> Unbuilt]
  /\ netmaskCache = [v \in Versions |-> <<>>]
  /\ last \in {Draw("mask", <<form, p>>) :
                 form \in {"netmask", "hostmask"}, p \in 0..IPv4LENGTH}
            \cup {Draw("gap", x) : x \in GapInputs}
            \cup {Draw("hextets", h) : h \in HextetLists}

\* IPv4Address._prefixFromIpString(text)
PrefixFromIpString ==
  /\ Drawn("mask")
  /\ last' = Call("prefixFromIpString", "", "", last.args,
                  _prefixFromIpString(MaskText(last.args[1], last.args[2])))
  /\ UNCHANGED <<net, netmaskCache, callers, iters>>

\* IPv6Address._ipIntFromString(text)
IpIntFromString6 ==
  /\ Drawn("gap")
  /\ last' = Call("ipIntFromString6", "", "", last.args,
                  _ipIntFromString6(GapText(last.args[1], last.args[2], last.args[3])))
  /\ UNCHANGED <<net, netmaskCache, callers, iters>>

\* IPv6Address._compressHextets(hextets).join(":")
CompressHextets ==
  /\ Drawn("hextets")
  /\ last' = Call("compressHextets", "", "", last.args,
                  Colons(_compressHextets(last.args)))
  /\ UNCHANGED <<net, netmaskCache, callers, iters>>

TextNext ==
  \/ PrefixFromIpString
  \/ IpIntFromString6
  \/ CompressHextets

TextSpec == TextInit /\ [][TextNext]_vars

(***************************************************************************)
(* The integer/byte codec called on its own (utilities.ts): one call of    *)
(* intToBytes, of intFromBytes on its result, of intFromBytes on an array, *)
(* or of an address constructor on an array.                               *)
(***************************************************************************)
CodecMagnitudes ==
  { <<>>, One, FromNat(255), FromNat(256), FromNat(65535), FromNat(65536),
    Quad(192, 168, 0, 1), TwoToThe(IPv4LENGTH), AllOnesBits(SafeBits),
    TwoToThe(SafeBits), Doc6(1), AllOnesBits(IPv6LENGTH), TwoToThe(IPv6LENGTH) }

CodecValues ==
  {JsNumber(m) : m \in {x \in CodecMagnitudes : Len(x) <= SafeBits + 1}}
    \cup {JsBigInt(m) : m \in CodecMagnitudes}
    \cup {JsNegNumber(One), JsNegNumber(FromNat(256)), JsNegBigInt(One)}

CodecLengths == {0, 1, 2, 4, 7, 8, 16}

ByteArrays ==
  { Bytes(<<>>), Bytes(<<7>>), Bytes(<<1, 2>>), Bytes(<<192, 168, 0, 1>>),
    Bytes(<<1, 0, 0, 1>>), Bytes(<<10, 0, 0, 0>>), Bytes(<<0, 0, 32, 0, 0, 0, 0, 1>>),
    Bytes(<<32, 1, 13, 184, 0, 0, 0, 0, 0, 0, 0, 0, 0, 0, 0, 1>>),
    Bytes(<<1, 0, 0, 0, 0, 0, 0, 0, 0, 0, 0, 0, 0, 0, 0, 1>>) }

CodecInit ==
  /\ callers = NoCallers
  /\ iters = NoIters
  /\ net = [s \in Slots |-> Unbuilt]
  /\ netmaskCache = [v \in Versions |-> <<>>]
  /\ last \in {Draw("toBytes", <<n, length, order>>) :
                 n \in CodecValues, length \in CodecLengths, order \in ByteOrders}
            \cup {Draw("fromBytes", <<bytes, order>>) :
                    bytes \in ByteArrays, order \in ByteOrders}

\* intToBytes(n, length, order)
IntToBytes ==
  /\ Drawn("toBytes")
  /\ last' = Call("intToBytes", "", "", last.args,
                  intToBytesCall(last.args[1], last.args[2], last.args[3]))
  /\ UNCHANGED <<net, netmaskCache, callers, iters>>

\* intFromBytes(intToBytes(n, length, order), order)
BytesRoundTrip ==
  /\ Drawn("toBytes")
  /\ last' = Call("bytesRoundTrip", "", "", last.args,
                  Try(intToBytesCall(last.args[1], last.args[2], last.args[3]),
                      LAMBDA bytes :
                        Try(intFromBytes(Bytes(bytes).a, last.args[3], FALSE),
                            LAMBDA n : Ok(NumberOrBigInt(n)))))
  /\ UNCHANGED <<net, netmaskCache, callers, iters>>

\* intFromBytes(bytes, order): what it returns and what bytes holds afterwards
IntFromBytes ==
  /\ Drawn("fromBytes")
  /\ last' = Call("intFromBytes", "", "", last.args,
                  [result |-> intFromBytes(last.args[1].a, last.args[2], FALSE),
                   bytes |-> JsArray(littleOrdered(last.args[1].a, last.args[2]))])
  /\ UNCHANGED <<net, netmaskCache, callers, iters>>

\* new IPv4Address(bytes) for four bytes, new IPv6Address(bytes) for sixteen:
\* the constructor hands the caller's array itself to intFromBytes
NewFromPacked ==
  /\ Drawn("fromBytes")
  /\ Len(last.args[1].a) \in {4, 16}
  /\ last' = Call("newFromPacked", "", "", last.args,
                  [result |-> NewAddress(IF Len(last.args[1].a) = 4 THEN 4 ELSE 6,
                                         last.args[1]),
                   bytes |-> JsArray(littleOrdered(last.args[1].a, "big"))])
  /\ UNCHANGED <<net, netmaskCache, callers, iters>>

CodecNext ==
  \/ IntToBytes
  \/ BytesRoundTrip
  \/ IntFromBytes
  \/ NewFromPacked

CodecSpec == CodecInit /\ [][CodecNext]_vars

(***************************************************************************)
(* _makeNetmask called on its own, any number of times, each call running  *)
(* from its first statement to its return before the next one starts.      *)
(***************************************************************************)
MaskArgs4 ==
  { JsNumber(FromNat(24)), JsString(DecStr(24)), JsString(Dotted(255, 255, 255, 0)),
    JsString(Dotted(0, 0, 0, 255)), JsNumber(FromNat(32)), JsString(DecStr(32)),
    JsString(Dotted(255, 255, 255, 255)), JsNumber(FromNat(33)),
    JsString(<<"2", "x">>), JsString(Dotted(255, 0, 255, 0)) }

MaskArgs6 ==
  { JsNumber(FromNat(64)), JsString(DecStr(64)), JsNumber(FromNat(128)),
    JsNumber(FromNat(129)), JsString(<<"f", "f", "f", "f", ":", ":">>) }

MaskArgs(version) == IF version = 4 THEN MaskArgs4 ELSE MaskArgs6

CacheInit ==
  /\ callers = NoCallers
  /\ iters = NoIters
  /\ net = [s \in Slots |-> Unbuilt]
  /\ netmaskCache = [v \in Versions |-> <<>>]
  /\ last = NoCall

\* IPv4Address._makeNetmask(arg) / IPv6Address._makeNetmask(arg); the call
\* record says whether the entry was there when the call began
MakeNetmask(version, arg) ==
  LET made == _makeNetmask(version, netmaskCache[version], arg)
  IN  /\ last' = Call("makeNetmask",
                      IF CacheKey(arg) \in DOMAIN netmaskCache[version]
                      THEN "hit" ELSE "miss",
                      "", <<version, arg>>, made.res)
      /\ netmaskCache' = [netmaskCache EXCEPT ![version] = made.cache]
      /\ UNCHANGED <<net, callers, iters>>

CacheNext == \E version \in Versions : \E arg \in MaskArgs(version) :
               MakeNetmask(version, arg)

CacheSpec == CacheInit /\ [][CacheNext]_vars

(***************************************************************************)
(* _makeNetmask with its statements taken one at a time: two callers, each *)
(* at its own place in the method, share the class's cache.  The method    *)
(* has no await, so the calls the program makes are the runs in which one  *)
(* caller goes from Begin to Return before the other moves; the runs here  *)
(* include them.                                                           *)
(***************************************************************************)
Callers == {1, 2}

RaceArgs ==
  { <<4, JsNumber(FromNat(24))>>, <<4, JsString(DecStr(24))>>,
    <<4, JsString(Dotted(255, 255, 255, 0))>>,
    <<4, JsString(Dotted(255, 255, 255, 255))>>, <<4, JsNumber(FromNat(33))>>,
    <<6, JsNumber(FromNat(64))>>, <<6, JsString(DecStr(64))>> }

Idle == [pc |-> "idle"]

RaceInit ==
  /\ callers = [c \in Callers |-> Idle]
  /\ iters = NoIters
  /\ net = [s \in Slots |-> Unbuilt]
  /\ netmaskCache = [v \in Versions |-> <<>>]
  /\ last = NoCall

\* The call: _makeNetmask(arg) on the family's class
Begin(c, version, arg) ==
  /\ callers[c].pc = "idle"
  /\ callers' = [callers EXCEPT ![c] = [pc |-> "check", version |-> version, arg |-> arg]]
  /\ UNCHANGED <<net, netmaskCache, last, iters>>

\* if (this._netmaskCache[arg] === undefined)
Check(c) ==
  /\ callers[c].pc = "check"
  /\ callers' = [callers EXCEPT ![c].pc =
                   IF CacheKey(callers[c].arg) \in DOMAIN netmaskCache[callers[c].version]
                   THEN "read" ELSE "compute"]
  /\ UNCHANGED <<net, netmaskCache, last, iters>>

\* The prefix length of the argument, or the exception that ends the call
Compute(c) ==
  /\ callers[c].pc = "compute"
  /\ LET prefixlen == PrefixlenOf(callers[c].version, callers[c].arg)
     IN  callers' = [callers EXCEPT ![c] =
                       IF prefixlen.ok
                       THEN [pc |-> "store", version |-> callers[c].version,
                             arg |-> callers[c].arg, prefixlen |-> prefixlen.v]
                       ELSE [pc |-> "done", version |-> callers[c].version,
                             arg |-> callers[c].arg, result |-> prefixlen]]
  /\ UNCHANGED <<net, netmaskCache, last, iters>>

\* this._netmaskCache[arg] = [netmask, prefixlen]
Store(c) ==
  /\ callers[c].pc = "store"
  /\ netmaskCache' =
       [netmaskCache EXCEPT ![callers[c].version] =
          (CacheKey(callers[c].arg) :>
             NetmaskCacheValue(callers[c].version, callers[c].prefixlen)) @@ @]
  /\ callers' = [callers EXCEPT ![c] = [pc |-> "read", version |-> callers[c].version,
                                        arg |-> callers[c].arg]]
  /\ UNCHANGED <<net, last, iters>>

\* return this._netmaskCache[arg]
Read(c) ==
  /\ callers[c].pc = "read"
  /\ callers' = [callers EXCEPT ![c] =
                   [pc |-> "done", version |-> callers[c].version, arg |-> callers[c].arg,
                    result |-> Ok(netmaskCache[callers[c].version][CacheKey(callers[c].arg)])]]
  /\ UNCHANGED <<net, netmaskCache, last, iters>>

\* The caller has its result and is free to call again
Return(c) ==
  /\ callers[c].pc = "done"
  /\ callers' = [callers EXCEPT ![c] = Idle]
  /\ UNCHANGED <<net, netmaskCache, last, iters>>

RaceNext ==
  \E c \in Callers :
    \/ \E a \in RaceArgs : Begin(c, a[1], a[2])
    \/ Check(c)
    \/ Compute(c)
    \/ Store(c)
    \/ Read(c)
    \/ Return(c)

RaceSpec == RaceInit /\ [][RaceNext]_vars

(***************************************************************************)
(* Generator objects.  Each call of hosts(), iterate() or subnets() makes  *)
(* a generator object with the locals of its own run of the method's body; *)
(* next() resumes that run up to its next yield.  The networks are not     *)
(* changed by anything, so the locals may be taken when the object is made *)
(* although the body first runs at the first next().                       *)
(***************************************************************************)
\* Generator objects alive at one time
MaxGenerators == 2

\* The generator object a call returns: nothing pulled yet
NewGenerator(kind, slot, args, self) ==
  [kind |-> kind, slot |-> slot, args |-> args, pulls |-> 0, seen |-> <<>>,
   done |-> FALSE,
   x |-> Plus(self.networkAddress._ip, One),
   broadcast |-> broadcastAddress(self)._ip]

\* A faulty resumption: every generator resumes at the first one's x.
SharedCursor(its, i) == its[1].x

\* The x the i-th generator's loop resumes with: its own local
OwnCursor(its, i) == its[i].x

\* next() on the i-th generator of its: the generator afterwards
Resume(its, i, self, cache) ==
  LET g == its[i]
      pulled == [g EXCEPT !.pulls = @ + 1]
  IN  IF g.done THEN pulled
      ELSE IF g.kind \in {"hosts", "iterate"}
      THEN With(OwnCursor(its, i), LAMBDA x :
             IF Less(x, g.broadcast)
             THEN [pulled EXCEPT !.seen = Append(@, [version |-> self.version, _ip |-> x]),
                                 !.x = Plus(x, One)]
             ELSE [pulled EXCEPT !.done = TRUE])
      ELSE With(GenNext(subnets(self, cache, g.args[1], g.args[2]), g.pulls + 1),
                LAMBDA r :
                  IF r.done THEN [pulled EXCEPT !.done = TRUE]
                  ELSE [pulled EXCEPT !.seen = Append(@, r.value)])

GeneratorInputs ==
  { <<4, JsNumber(Quad(192, 0, 2, 1))>>, <<4, JsNumber(Quad(255, 255, 255, 253))>>,
    <<4, JsString(Slash(Dotted(10, 0, 0, 0), DecStr(24)))>>,
    <<6, JsBigInt(Minus(_ALL_ONES(6), FromNat(2)))>> }

GeneratorInit ==
  /\ callers = NoCallers
  /\ iters = NoIters
  /\ net = [s \in Slots |-> Unbuilt]
  /\ netmaskCache = [v \in Versions |-> <<>>]
  /\ last = NoCall

\* const g = slot.hosts(), slot.iterate() or slot.subnets(prefixlenDiff, newPrefix)
Generate(kind, slot, args) ==
  /\ net[slot].res.ok
  /\ Len(iters) < MaxGenerators
  /\ iters' = Append(iters, NewGenerator(kind, slot, args, net[slot].res.v))
  /\ UNCHANGED <<net, netmaskCache, last, callers>>

\* g.next() on the i-th live generator
Advance(i) ==
  /\ i \in 1..Len(iters)
  /\ iters[i].pulls < MaxIterated
  /\ LET self == net[iters[i].slot].res.v
     IN  /\ iters' = [iters EXCEPT ![i] = Resume(iters, i, self, netmaskCache[self.version])]
         /\ netmaskCache' =
              IF iters[i].kind = "subnets"
              THEN [netmaskCache EXCEPT ![self.version] =
                      subnets(self, @, iters[i].args[1], iters[i].args[2]).cache]
              ELSE netmaskCache
  /\ UNCHANGED <<net, last, callers>>

\* The i-th live generator is dropped where it stands
Abandon(i) ==
  /\ i \in 1..Len(iters)
  /\ iters' = [k \in 1..(Len(iters) - 1) |-> IF k < i THEN iters[k] ELSE iters[k + 1]]
  /\ UNCHANGED <<net, netmaskCache, last, callers>>

GeneratorNext ==
  \/ \E x \in GeneratorInputs : New("A", x[1], x[2], FALSE)
  \/ Generate("hosts", "A", <<>>)
  \/ Generate("iterate", "A", <<>>)
  \/ \E args \in PrefixArgs : Generate("subnets", "A", args)
  \/ \E i \in 1..MaxGenerators : Advance(i)
  \/ \E i \in 1..MaxGenerators : Abandon(i)

GeneratorSpec == GeneratorInit /\ [][GeneratorNext]_vars

(***************************************************************************)
(* What a family 4 text denotes, read off the text itself, and address     *)
(* ranges.                                                                 *)
(***************************************************************************)
HasSlash(t) == IndexOf(t, "/") # -1
QuadOf(s) ==
  LET o == Split(s, ".")
  IN  Quad(DecValue(o[1]), DecValue(o[2]), DecValue(o[3]), DecValue(o[4]))
\* The netmask of prefix length p: the high p bits of the family's width
PrefixMask(version, p) ==
  Norm([i \in 1.._maxPrefixlen(version) |->
          IF i > _maxPrefixlen(version) - p THEN 1 ELSE 0])
ClearLow(x, k) == ShiftLeft(ShiftRight(x, k), k)

DenotedAddress(t) == QuadOf(Split(t, "/")[1])
DenotedPrefixlen(t) ==
  IF ~HasSlash(t) THEN IPv4LENGTH
  ELSE LET m == Split(t, "/")[2]
       IN  IF strIsDigit(m) THEN DecValue(m)
           ELSE IF \E p \in 0..IPv4LENGTH : PrefixMask(4, p) = QuadOf(m)
                THEN CHOOSE p \in 0..IPv4LENGTH : PrefixMask(4, p) = QuadOf(m)
           ELSE CHOOSE p \in 0..IPv4LENGTH :
                  BitXor(PrefixMask(4, p), _ALL_ONES(4)) = QuadOf(m)
HostBitsInText(t) ==
  BitAnd(DenotedAddress(t), PrefixMask(4, DenotedPrefixlen(t))) # DenotedAddress(t)

\* The variable was built from a family 4 text
FromText(slot) ==
  net[slot].built /\ net[slot].version = 4 /\ isString(net[slot].address)
TextOf(slot) == net[slot].address.s
\* ... from a text that denotes a network (no host bits), successfully
FromNetworkText(slot) ==
  FromText(slot) /\ HasSlash(TextOf(slot)) /\ ~HostBitsInText(TextOf(slot))
  /\ net[slot].res.ok

RangeOf(lo, version, prefixlen) ==
  [lo |-> lo, hi |-> Plus(lo, Minus(TwoToThe(_maxPrefixlen(version) - prefixlen), One))]
StoredRange(n) == RangeOf(n.networkAddress._ip, n.version, n._prefixlen)
DenotedRange(t) == RangeOf(DenotedAddress(t), 4, DenotedPrefixlen(t))
Within(r, outer) == LessEq(outer.lo, r.lo) /\ LessEq(r.hi, outer.hi)
Disjoint(r1, r2) == Less(r1.hi, r2.lo) \/ Less(r2.hi, r1.lo)
Size(r) == Plus(Minus(r.hi, r.lo), One)
RECURSIVE TotalSize(_)
TotalSize(rs) == IF Len(rs) = 0 THEN <<>> ELSE Plus(Size(Head(rs)), TotalSize(Tail(rs)))
\* The ranges rs are pairwise disjoint and their union is exactly outer
Partitions(rs, outer) ==
  /\ \A i \in 1..Len(rs) : Within(rs[i], outer)
  /\ \A i \in 1..Len(rs), j \in 1..Len(rs) : i < j => Disjoint(rs[i], rs[j])
  /\ TotalSize(rs) = Size(outer)
YieldedRanges(gen) == [i \in 1..Len(gen.yields) |-> StoredRange(gen.yields[i])]

NoHostBits(n) == BitAnd(n.networkAddress._ip, n.netmask._ip) = n.networkAddress._ip

\* Every network object the state holds: the two variables and whatever
\* the last call returned or yielded
StoredNetworks ==
  { net[s].res.v : s \in {x \in Slots : net[x].res.ok} }
  \cup (IF last.op \in {"subnets", "addressExclude"}
        THEN { last.out.yields[i] : i \in 1..Len(last.out.yields) }
        ELSE IF last.op = "supernet" /\ last.out.ok THEN {last.out.v}
        ELSE {})

(***************************************************************************)
(* The claims.                                                             *)
(***************************************************************************)

\* C1: after every successful network construction, strict or not and for
\* either family, the stored network address has no bit set outside the
\* stored netmask: (networkAddress AND netmask) = networkAddress.
NetworkAddressWithinNetmask == \A n \in StoredNetworks : NoHostBits(n)

\* C1's case: a family 4 network built non-strictly from a text whose
\* address has bits outside the mask it names, and a family 6 network, both
\* constructions having succeeded.
NetworkAddressWithinNetmaskWitness ==
  /\ net["A"].res.ok /\ net["A"].version = 4 /\ ~net["A"].strict
  /\ FromText("A") /\ HasSlash(TextOf("A")) /\ HostBitsInText(TextOf("A"))
  /\ net["B"].res.ok /\ net["B"].version = 6

\* C2: constructing a network from an address with bits set outside the
\* netmask fails when strict is true and, when strict is false, succeeds
\* with the network address equal to the address ANDed with the netmask
\* ("10.0.0.5/24" fails strictly and gives 10.0.0.0/24 non-strictly).
StrictRejectsHostBitsElseMasks ==
  \A s \in Slots :
    (FromText(s) /\ HasSlash(TextOf(s)) /\ HostBitsInText(TextOf(s))) =>
      IF net[s].strict THEN ~net[s].res.ok
      ELSE /\ net[s].res.ok
           /\ net[s].res.v.networkAddress._ip =
                BitAnd(DenotedAddress(TextOf(s)),
                       PrefixMask(4, DenotedPrefixlen(TextOf(s))))

\* C3: the prefix length and netmask of a network built from text are the
\* ones its "/mask" suffix denotes (a decimal prefix length, a netmask or a
\* hostmask), and the family's maximum prefix length without a suffix.
PrefixlenFromTextSuffix ==
  \A s \in Slots :
    (FromText(s) /\ ~HostBitsInText(TextOf(s))) =>
      /\ net[s].res.ok
      /\ net[s].res.v._prefixlen = DenotedPrefixlen(TextOf(s))
      /\ net[s].res.v.netmask._ip = PrefixMask(4, DenotedPrefixlen(TextOf(s)))

\* C4: for every network, hostmask is the complement of the netmask within
\* the family's width (netmask XOR allOnes), whatever the network address.
HostmaskIsNetmaskComplement ==
  last.op = "hostmask" =>
    LET self == net[last.self].res.v
    IN  last.out._ip = BitXor(self.netmask._ip, _ALL_ONES(self.version))

\* C5: for every network, broadcastAddress is the network address with
\* every host bit set, and numAddresses = broadcast - network + 1 =
\* 2^(maxlen - prefixlen).
BroadcastSetsHostBits ==
  /\ last.op = "broadcastAddress" =>
       LET self == net[last.self].res.v
       IN  last.out._ip =
             BitOr(self.networkAddress._ip,
                   BitXor(self.netmask._ip, _ALL_ONES(self.version)))
  /\ last.op = "numAddresses" =>
       LET self == net[last.self].res.v
       IN  last.out = TwoToThe(_maxPrefixlen(self.version) - self._prefixlen)

\* C6: for a network A and a target prefix length N with A.prefixlen < N <=
\* maxlen, the networks A.subnets(newPrefix=N) yields are pairwise disjoint,
\* each has prefix length N and no host bits, and their ranges together are
\* exactly A's range.  (A is what the text it was built from denotes.)
SubnetsPartitionNetwork ==
  (/\ last.op = "subnets"
   /\ FromNetworkText(last.self)
   /\ ~isNull(last.args[2]) /\ last.args[1] = 1
   /\ DenotedPrefixlen(TextOf(last.self)) < last.args[2][1]
   /\ last.args[2][1] <= IPv4LENGTH) =>
    /\ last.out.end = "return"
    /\ \A i \in 1..Len(last.out.yields) :
         /\ last.out.yields[i]._prefixlen = last.args[2][1]
         /\ NoHostBits(last.out.yields[i])
    /\ Partitions(YieldedRanges(last.out), DenotedRange(TextOf(last.self)))

\* Both variables hold family 4 networks built from texts denoting networks
\* A and B, B's range within A's and A # B: the case of C7 and C8.
ExcludedStrictlyContained ==
  /\ last.op = "addressExclude"
  /\ FromNetworkText(last.self) /\ FromNetworkText(last.other)
  /\ Within(DenotedRange(TextOf(last.other)), DenotedRange(TextOf(last.self)))
  /\ DenotedRange(TextOf(last.other)) # DenotedRange(TextOf(last.self))

\* C7: for networks A and B of one family with B contained in A and A # B,
\* the networks A.addressExclude(B) yields, together with B, cover exactly
\* A's range: every address of A in exactly one of them, none outside A.
AddressExcludeCoversRest ==
  ExcludedStrictlyContained =>
    /\ last.out.end = "return"
    /\ Partitions(YieldedRanges(last.out) \o <<DenotedRange(TextOf(last.other))>>,
                  DenotedRange(TextOf(last.self)))

\* C8: for B strictly contained in A, A.addressExclude(B) yields exactly
\* B.prefixlen - A.prefixlen networks, one of each prefix length from
\* A.prefixlen + 1 through B.prefixlen, each the half without B of one
\* bisection step (192.0.2.0/28 minus 192.0.2.1/32 yields 192.0.2.0/32,
\* 192.0.2.2/31, 192.0.2.4/30 and 192.0.2.8/29).
AddressExcludeYieldsSiblings ==
  ExcludedStrictlyContained =>
    LET a == DenotedPrefixlen(TextOf(last.self))
        b == DenotedPrefixlen(TextOf(last.other))
        addr == DenotedAddress(TextOf(last.other))
    IN  /\ last.out.end = "return"
        /\ Len(last.out.yields) = b - a
        /\ \A k \in (a + 1)..b :
             \E i \in 1..Len(last.out.yields) :
               /\ last.out.yields[i]._prefixlen = k
               /\ last.out.yields[i].networkAddress._ip =
                    BitXor(ClearLow(addr, IPv4LENGTH - k), TwoToThe(IPv4LENGTH - k))

\* C9: addressExclude fails, yielding no network, whenever the network to
\* exclude is of a different family or is not fully contained in this one.
AddressExcludeRejectsOutsider ==
  (/\ last.op = "addressExclude"
   /\ LET self == net[last.self].res.v
          other == net[last.other].res.v
      IN  \/ self.version # other.version
          \/ ~Within(StoredRange(other), StoredRange(self))) =>
    /\ last.out.end = "throw"
    /\ last.out.yields = <<>>

\* The prefix length a supernet call asks for: newPrefix when given, else
\* the network's own less prefixlenDiff
SupernetTarget(self, args) ==
  IF isNull(args[2]) THEN self._prefixlen - args[1] ELSE args[2][1]

\* C10: for a network with prefix length P > 0, supernet with a target
\* prefix length N, 0 <= N < P (newPrefix=N or prefixlenDiff=P-N), returns
\* the network of prefix length N whose address is this one's with its low
\* (maxlen - N) bits cleared; a network of prefix length 0 is returned
\* unchanged.
SupernetClearsLowBits ==
  last.op = "supernet" =>
    LET self == net[last.self].res.v
        n == SupernetTarget(self, last.args)
    IN  /\ (self._prefixlen > 0 /\ 0 <= n /\ n < self._prefixlen
            /\ (isNull(last.args[2]) \/ last.args[1] = 1)) =>
              /\ last.out.ok
              /\ last.out.v._prefixlen = n
              /\ last.out.v.networkAddress._ip =
                   ClearLow(self.networkAddress._ip, _maxPrefixlen(self.version) - n)
        /\ self._prefixlen = 0 => (last.out.ok /\ last.out.v = self)

\* The prefix length a subnets call asks for: newPrefix when given, else
\* the network's own plus prefixlenDiff
SubnetsTarget(self, args) ==
  IF isNull(args[2]) THEN self._prefixlen + args[1] ELSE args[2][1]

\* C11: subnets fails, yielding no network, whenever the target prefix
\* length it is asked for does not strictly exceed the network's own prefix
\* length or exceeds the family's maximum.
SubnetsRejectsBadTarget ==
  (/\ last.op = "subnets"
   /\ isNull(last.args[2]) \/ last.args[1] = 1
   /\ LET self == net[last.self].res.v
      IN  \/ SubnetsTarget(self, last.args) <= self._prefixlen
          \/ SubnetsTarget(self, last.args) > _maxPrefixlen(self.version)) =>
    /\ last.out.end = "throw"
    /\ last.out.yields = <<>>

\* C12: for two networks of one family, subnetOf(other) is true exactly
\* when other's address range contains this network's whole range, the
\* boundaries compared with <=, so that every network is a subnet of itself.
SubnetOfIsRangeContainment ==
  (/\ last.op = "subnetOf"
   /\ net[last.self].res.v.version = net[last.other].res.v.version) =>
    /\ last.out.ok
    /\ last.out.v = Within(StoredRange(net[last.self].res.v),
                           StoredRange(net[last.other].res.v))

\* C13: iterate() yields every address of the network from the network
\* address to the broadcast address, both included, in increasing order,
\* each once, and then ends.
IterateCoversNetworkRange ==
  last.op = "iterate" =>
    LET self == net[last.self].res.v
        n == Len(last.out.yields)
    IN  /\ n >= 1
        /\ \A i \in 1..n :
             last.out.yields[i]._ip = Plus(StoredRange(self).lo, FromNat(i - 1))
        /\ IF last.out.end = "return"
           THEN last.out.yields[n]._ip = StoredRange(self).hi
           ELSE Less(last.out.yields[n]._ip, StoredRange(self).hi)

\* C14: for every integer v in [0, 2^32 - 1], parsing the dotted decimal
\* text that formatting v gives returns v; 3232235521 formats to
\* "192.168.0.1", which parses back to 3232235521.
FormatParseRoundTrip4 ==
  last.op = "formatParse4" =>
    /\ last.out.parsed = Ok(QuadValue(last.args))
    /\ QuadValue(last.args) = Plus(ShiftLeft(FromNat(49320), 16), One) =>
         last.out.text = <<"1", "9", "2", ".", "1", "6", "8", ".", "0", ".", "1">>

\* C14's case: 3232235521 has been formatted and the text parsed back.
FormatParseRoundTrip4Witness ==
  /\ last.op = "formatParse4"
  /\ last.args = <<192, 168, 0, 1>>
  /\ last.out.parsed.ok

\* The text of the six-hextet-free long form of 2001:db8::1
DocExploded6 ==
  Colons(<<<<"2", "0", "0", "1">>, <<"0", "d", "b", "8">>, <<"0", "0", "0", "0">>,
           <<"0", "0", "0", "0">>, <<"0", "0", "0", "0">>, <<"0", "0", "0", "0">>,
           <<"0", "0", "0", "0">>, <<"0", "0", "0", "1">>>>)

\* C15: for every family 6 integer v, parsing the compressed text that
\* formatting v gives returns v; "2001:db8::1" parses to the value whose
\* exploded form is 2001:0db8:0000:0000:0000:0000:0000:0001 and whose
\* compressed form is "2001:db8::1" again.
FormatParseRoundTrip6 ==
  /\ last.op = "formatParse6" =>
       /\ last.out.text.ok
       /\ last.out.parsed = Ok(last.args[1])
  /\ (last.op = "parseExplode6" /\ last.args[1] = DocText6) =>
       /\ last.out.address.ok
       /\ last.out.address.v._ip = Doc6(1)
       /\ last.out.exploded = Ok(DocExploded6)
       /\ last.out.compressed = Ok(DocText6)

\* C16: for every prefix length p in [0, maxlen] of either family, the
\* netmask integer of p converts back to the prefix length p.
PrefixNetmaskRoundTrip ==
  last.op = "prefixRoundTrip" => last.out = Ok(last.args[2])

OutOfRangeArgument(version, x) ==
  \/ (isNumber(x) \/ isBigInt(x)) /\ (IsNegative(x) \/ Less(_ALL_ONES(version), x.n))
  \/ isByteArray(x) /\ Len(x.a) # (IF version = 4 THEN 4 ELSE 16)

\* C18: every successfully constructed address has 0 <= value <=
\* family_max; construction from a negative integer, from an integer above
\* family_max, or from a byte array whose length is not 4 (family 4) or 16
\* (family 6) fails with an address error and makes no address.
AddressValueInRange ==
  last.op = "new" =>
    /\ last.out.ok => LessEq(last.out.v._ip, _ALL_ONES(last.args[1]))
    /\ OutOfRangeArgument(last.args[1], last.args[2]) =>
         /\ ~last.out.ok
         /\ last.out.err \in {"AddressValueError", "AddressTypeError"}

\* What the spec's rules for an octet reject
MalformedOctet(o) ==
  \/ Len(o) = 0
  \/ \E i \in 1..Len(o) : ~IsDigitChar(o[i])
  \/ Len(o) > 3
  \/ o[1] = "0" /\ o # <<"0">>
  \/ DecValue(o) > 255
MalformedText4(t) ==
  \/ Len(t) = 0
  \/ Len(Split(t, ".")) # 4
  \/ \E i \in 1..Len(Split(t, ".")) : MalformedOctet(Split(t, ".")[i])

\* C19: IPv4 text parsing fails with an address error, giving no value, for
\* every text that is empty, does not split on "." into exactly 4 octets, or
\* has an octet that is empty, has a character other than the digits 0-9, is
\* longer than 3 characters, starts with 0 without being "0", or is above
\* 255.
ParseRejectsMalformedText4 ==
  (last.op = "parse4" /\ MalformedText4(last.args[1])) =>
    /\ ~last.out.ok
    /\ last.out.err = "AddressValueError"

\* C20: two addresses are equal if and only if they have the same family,
\* the same integer value and, for family 6, the same scope identifier.
EqualsComparesFamilyValueScope ==
  (last.op = "equals" /\ last.out.a.ok /\ last.out.b.ok) =>
    last.out.equal =
      (/\ last.out.a.v.version = last.out.b.v.version
       /\ last.out.a.v._ip = last.out.b.v._ip
       /\ last.out.a.v.version = 6 =>
            scope_id(last.out.a.v) = scope_id(last.out.b.v))

\* The integer a sequence of bytes, lowest first, stands for
RECURSIVE BytesValue(_)
BytesValue(littleFirst) ==
  IF Len(littleFirst) = 0 THEN <<>>
  ELSE Plus(FromNat(Head(littleFirst)), ShiftLeft(BytesValue(Tail(littleFirst)), 8))

\* C21: intToBytes(value, length, order) returns exactly `length` elements,
\* each in [0, 255], in the requested byte order, and fails whenever value
\* is negative or needs more than `length` bytes.
IntToBytesFitsOrFails ==
  last.op = "intToBytes" =>
    LET n == last.args[1]
        length == last.args[2]
        order == last.args[3]
    IN  IF IsNegative(n) \/ Len(n.n) > 8 * length
        THEN ~last.out.ok
        ELSE /\ last.out.ok
             /\ Len(last.out.v) = length
             /\ \A k \in 1..length : last.out.v[k] \in 0..255
             /\ BytesValue(IF order = "little" THEN last.out.v
                           ELSE Reverse(last.out.v)) = n.n

\* C22: for every non-negative integer n that fits in `length` bytes and
\* either byte order, intFromBytes(intToBytes(n, length, order), order)
\* equals n, returned as a native number when n is within the safe-integer
\* range and as an arbitrary-precision integer otherwise.
BytesRoundTripReturnsValue ==
  last.op = "bytesRoundTrip" =>
    LET n == last.args[1]
        length == last.args[2]
    IN  (~IsNegative(n) /\ Len(n.n) <= 8 * length) =>
          /\ last.out.ok
          /\ last.out.v = IF Len(n.n) <= SafeBits THEN JsNumber(n.n)
                          ELSE JsBigInt(n.n)

\* C22's case: 2^53, the first integer outside the safe range, has gone
\* through seven big-endian bytes and come back as a bigint.
BytesRoundTripReturnsValueWitness ==
  /\ last.op = "bytesRoundTrip"
  /\ last.args = <<JsBigInt(TwoToThe(SafeBits)), 7, "big">>
  /\ last.out.ok
  /\ isBigInt(last.out.v)

\* C30: intFromBytes leaves its input unchanged: after the call the caller's
\* byte array holds the same elements in the same order as before, for
\* either byte order, so an address built from a byte array does not alter
\* that array.
IntFromBytesLeavesInput ==
  last.op \in {"intFromBytes", "newFromPacked"} => last.out.bytes = last.args[1]

EmptyCache == <<>>

\* C23: for every sequence of makeNetmask calls on one family (any mix of
\* numeric and textual arguments, valid or invalid, in any order), each
\* call's outcome, the returned (netmask, prefixlen) pair or the failure, is
\* the outcome of that same call made against an empty cache.
MakeNetmaskIgnoresCache ==
  last.op = "makeNetmask" =>
    last.out = _makeNetmask(last.args[1], EmptyCache, last.args[2]).res

\* C23's case: the text "24" was answered from the cache while the cache
\* also held the entries of other arguments.
MakeNetmaskIgnoresCacheWitness ==
  /\ last.op = "makeNetmask"
  /\ last.self = "hit"
  /\ last.args = <<4, JsString(DecStr(24))>>
  /\ last.out.ok
  /\ Cardinality(DOMAIN netmaskCache[4]) >= 3

\* The prefix lengths a _makeNetmask argument denotes: the number itself, the
\* number a decimal text writes, or the p whose netmask (else whose hostmask)
\* a dotted quad writes; none when the argument is no mask at all
IsDottedQuad(s) ==
  LET o == Split(s, ".")
  IN  Len(o) = 4 /\ \A i \in 1..4 : o[i] # <<>> /\ strIsDigit(o[i])

MaskPrefixlens(version, arg) ==
  LET all == 0.._maxPrefixlen(version)
  IN  IF isNumber(arg) THEN {p \in all : FromNat(p) = arg.n}
      ELSE IF arg.s # <<>> /\ strIsDigit(arg.s) THEN {p \in all : DecStr(p) = arg.s}
      ELSE IF version = 4 /\ IsDottedQuad(arg.s)
      THEN LET asNetmask == {p \in all : PrefixMask(4, p) = QuadOf(arg.s)}
           IN  IF asNetmask # {} THEN asNetmask
               ELSE {p \in all : BitXor(PrefixMask(4, p), _ALL_ONES(4)) = QuadOf(arg.s)}
      ELSE {}

\* The result is the pair the argument denotes, or a failure when it denotes
\* none
IsCorrectPair(version, arg, result) ==
  IF MaskPrefixlens(version, arg) = {} THEN ~result.ok
  ELSE /\ result.ok
       /\ result.v.prefixlen \in MaskPrefixlens(version, arg)
       /\ result.v.netmask.version = version
       /\ result.v.netmask._ip = PrefixMask(version, result.v.prefixlen)

\* C24: when several callers run makeNetmask's read-check-then-write on the
\* shared cache in any interleaving, every caller receives the correct
\* (netmask, prefixlen) pair for its own argument and the cache ends holding
\* only correct entries.
RacingCallersGetCorrectPairs ==
  /\ \A c \in DOMAIN callers :
       callers[c].pc = "done" =>
         IsCorrectPair(callers[c].version, callers[c].arg, callers[c].result)
  /\ \A version \in Versions : \A key \in DOMAIN netmaskCache[version] :
       IsCorrectPair(version, JsString(key), Ok(netmaskCache[version][key]))

\* C29: for a network with prefix length P < maxlen and an accepted prefix
\* length difference d >= 1, the subnets sequence ends after yielding exactly
\* 2^d networks, whose network addresses are strictly increasing.  (P is the
\* prefix length the text the network was built from denotes.)
SubnetsYieldsTwoToTheDiff ==
  (/\ last.op = "subnets"
   /\ FromNetworkText(last.self)
   /\ isNull(last.args[2]) \/ last.args[1] = 1
   /\ LET P == DenotedPrefixlen(TextOf(last.self))
          d == IF isNull(last.args[2]) THEN last.args[1] ELSE last.args[2][1] - P
      IN  P < IPv4LENGTH /\ d >= 1 /\ P + d <= IPv4LENGTH) =>
    LET P == DenotedPrefixlen(TextOf(last.self))
        d == IF isNull(last.args[2]) THEN last.args[1] ELSE last.args[2][1] - P
        yields == last.out.yields
    IN  /\ last.out.end = "return"
        /\ FromNat(Len(yields)) = TwoToThe(d)
        /\ \A i \in 1..(Len(yields) - 1) :
             AddressLessThan(yields[i].networkAddress, yields[i + 1].networkAddress)

\* C26: for every prefix length p in [0, maxlen], the mask-string conversion
\* maps the netmask text of p to p and the hostmask text of p to p, except
\* that the two ambiguous patterns resolve as netmasks: the all-zeros mask
\* gives 0 and the all-ones mask gives maxlen.
MaskTextGivesPrefixlen ==
  last.op = "prefixFromIpString" =>
    LET text == MaskText(last.args[1], last.args[2])
    IN  /\ last.out.ok
        /\ last.out.v = IF text = Dotted(0, 0, 0, 0) THEN 0
                        ELSE IF text = Dotted(255, 255, 255, 255) THEN IPv4LENGTH
                        ELSE last.args[2]

\* The integer of a list of hextets, the first one highest
RECURSIVE HextetsValue(_)
HextetsValue(ns) ==
  IF Len(ns) = 0 THEN <<>>
  ELSE Plus(ShiftLeft(HextetsValue(SubSeq(ns, 1, Len(ns) - 1)), 16),
            FromNat(ns[Len(ns)]))

\* C27: when IPv6 text contains a "::" gap, parsing computes partsSkipped =
\* 8 - partsHi - partsLo, rejects the text if partsSkipped < 1, and otherwise
\* assembles the 128-bit value from the partsHi hextets before the gap, then
\* partsSkipped zero hextets, then the partsLo hextets after the gap, 16
\* bits each; text without a gap is accepted only with exactly 8 hextets.
GapParsesToShiftedHextets ==
  last.op = "ipIntFromString6" =>
    LET hi == last.args[1]
        gap == last.args[2]
        lo == last.args[3]
        partsSkipped == _HEXTET_COUNT - Len(hi) - Len(lo)
    IN  IF gap
        THEN IF partsSkipped < 1 THEN ~last.out.ok
             ELSE /\ last.out.ok
                  /\ last.out.v =
                       Plus(ShiftLeft(HextetsValue(hi), 16 * (partsSkipped + Len(lo))),
                            HextetsValue(lo))
        ELSE IF Len(hi) + Len(lo) # _HEXTET_COUNT THEN ~last.out.ok
             ELSE last.out.ok /\ last.out.v = HextetsValue(hi \o lo)

\* The length of the run of "0" hextets that starts at position i (1-based)
RECURSIVE ZeroRun(_, _)
ZeroRun(hextets, i) ==
  IF i > Len(hextets) \/ hextets[i] # <<"0">> THEN 0
  ELSE 1 + ZeroRun(hextets, i + 1)

\* The text with the first longest run of "0" hextets, when longer than one
\* hextet, written as "::" and everything else as it stands
CompressedText(hextets) ==
  LET longest == CHOOSE n \in 0..Len(hextets) :
                   /\ \E i \in 1..Len(hextets) : ZeroRun(hextets, i) = n
                   /\ \A i \in 1..Len(hextets) : ZeroRun(hextets, i) <= n
      first == CHOOSE i \in 1..Len(hextets) :
                 /\ ZeroRun(hextets, i) = longest
                 /\ \A j \in 1..(i - 1) : ZeroRun(hextets, j) < longest
  IN  IF longest <= 1 THEN Colons(hextets)
      ELSE Colons(SubSeq(hextets, 1, first - 1)) \o <<":", ":">>
           \o Colons(SubSeq(hextets, first + longest, Len(hextets)))

\* C28: compressed IPv6 formatting replaces with "::" only the longest run
\* of consecutive zero hextets, taking the first such run on ties and only
\* when that run is longer than one hextet; every other hextet, including an
\* isolated zero hextet and any shorter zero run, is printed unchanged in
\* its original position.
CompressesLongestZeroRun ==
  last.op = "compressHextets" => last.out = CompressedText(last.args)

\* What a generator made afresh by the same call gives when drained
FreshSequence(g) ==
  LET self == net[g.slot].res.v
  IN  CASE g.kind = "hosts" -> hosts(self)
        [] g.kind = "iterate" -> iterate(self)
        [] g.kind = "subnets" ->
             subnets(self, netmaskCache[self.version], g.args[1], g.args[2])

\* C25: each call to hosts(), iterate() or subnets() on a network returns a
\* fresh sequence that starts from the beginning; advancing or abandoning
\* one sequence, in any interleaving with others, never changes what any
\* other sequence obtained from the same network yields.
GeneratorsAreIndependent ==
  \A i \in 1..Len(iters) :
    LET g == iters[i]
        fresh == FreshSequence(g)
    IN  /\ \A k \in 1..Len(g.seen) :
             LET r == GenNext(fresh, k)
             IN  ~r.done /\ g.seen[k] = r.value
        /\ g.done => GenNext(fresh, Len(g.seen) + 1).done

\* C25's case: two generators of one kind on one network, the first pulled
\* to its third address while the second has yielded only its first.
GeneratorsAreIndependentWitness ==
  /\ Len(iters) = 2
  /\ iters[1].kind = "iterate" /\ iters[2].kind = "iterate"
  /\ Len(iters[1].seen) = 3
  /\ Len(iters[2].seen) = 1
  /\ iters[2].seen[1] = iters[1].seen[1]

====
